---- MODULE Spec2Model ----
(***************************************************************************)
(* saireecmponew: the accounts app (login with optional MFA, backup codes,  *)
(* password reset tokens: src/accounts/models.py, forms.py, views.py) and   *)
(* the document conversion pipeline (src/pdfapp/models.py, views.py).       *)
(* Text values whose content matters (one-time codes, backup codes, the    *)
(* mfa_backup_codes text field) are sequences of one-character strings.    *)
(* Time is counted in seconds.                                             *)
(***************************************************************************)
EXTENDS Integers, Sequences, FiniteSets, TLC

VARIABLES
    users,            \* CustomUser table: id -> row
    sessions,         \* session store: session key -> session data
    login_attempts,   \* LoginAttempt table, in creation order
    reset_tokens,     \* PasswordResetToken table, in creation order
    outbox,           \* mails delivered by send_mail
    now,              \* timezone.now(), in seconds
    ticks,            \* clock advances so far
    request,          \* the request handled last
    response,         \* the response given to it
    documents,        \* PDFDocument table: documents[pk] is the row of primary key pk
    logs,             \* ConversionLog table, in creation order
    run,              \* the request that is running process_document, and its position
    inflight          \* requests between their read of a row and their write: id -> locals

vars == <<users, sessions, login_attempts, reset_tokens, outbox, now, ticks,
          request, response, documents, logs, run, inflight>>

----------------------------------------------------------------------------
(* Bounds of the model *)

MaxAttempts == 2      \* LoginAttempt rows created in a run
MaxTokens == 2        \* PasswordResetToken rows created in a run
MaxTicks == 3         \* clock advances in a run
MaxDocs == 2          \* PDFDocument rows ever created
MaxRuns == 2          \* pipeline runs whose start entry is in the ConversionLog table
MaxViews == 1         \* detail views of one document
MaxDrift == 3         \* time steps between a submitted code and the time it is checked at
MaxTimes == 7         \* times of day a code is checked at, half a time step apart

(* Program constants *)

TOTP_INTERVAL == 30          \* pyotp.TOTP default time step, seconds
TOTP_DIGITS == 6             \* pyotp.TOTP default code length
VALID_WINDOW == 1            \* totp.verify(token, valid_window=1)
BACKUP_CODE_COUNT == 10      \* generate_backup_codes(self, count=10)
TOKEN_MAX_LENGTH == 6        \* MFAVerificationForm.token max_length
TOKEN_MIN_LENGTH == 6        \* MFAVerificationForm.token min_length
SETUP_TOKEN_MAX_LENGTH == 6  \* MFASetupForm.token max_length
SETUP_TOKEN_MIN_LENGTH == 6  \* MFASetupForm.token min_length
RESET_VALID_HOURS == 24      \* timedelta(hours=24)
PASSWORD_MIN_LENGTH == 8     \* MinimumLengthValidator min_length
SECONDS_PER_HOUR == 3600
CONVERT_TIMEOUT == 120

----------------------------------------------------------------------------
(* Strings *)

Lower == <<"a", "b", "c", "d", "e", "f">>
Upper == <<"A", "B", "C", "D", "E", "F">>
Digits == <<"0", "1", "2", "3", "4", "5", "6", "7", "8", "9">>

\* str.upper() on one character: letters are raised, everything else is kept
upper_char(c) ==
    IF \E i \in 1..Len(Lower) : Lower[i] = c
    THEN Upper[CHOOSE i \in 1..Len(Lower) : Lower[i] = c]
    ELSE c

\* str.upper()
upper(s) == [i \in 1..Len(s) |-> upper_char(s[i])]

RECURSIVE split_from(_, _, _, _)
split_from(s, i, cur, acc) ==
    IF i > Len(s) THEN Append(acc, cur)
    ELSE IF s[i] = "," THEN split_from(s, i + 1, <<>>, Append(acc, cur))
    ELSE split_from(s, i + 1, Append(cur, s[i]), acc)

\* str.split(','): the empty string splits into one empty piece
split(s) == split_from(s, 1, <<>>, <<>>)

\* ','.join(codes)
RECURSIVE join(_)
join(codes) ==
    IF codes = <<>> THEN <<>>
    ELSE IF Len(codes) = 1 THEN codes[1]
    ELSE codes[1] \o <<",">> \o join(Tail(codes))

\* x in list
contains(list, x) == \E i \in 1..Len(list) : list[i] = x

\* list.remove(x): drops the first occurrence
list_remove(list, x) ==
    LET k == CHOOSE i \in 1..Len(list) :
                 list[i] = x /\ \A j \in 1..(i - 1) : list[j] # x
    IN  [i \in 1..(Len(list) - 1) |-> IF i < k THEN list[i] ELSE list[i + 1]]

----------------------------------------------------------------------------
(* Values *)

None == "None"                       \* a session key that is absent, a row that is not there
UserIds == {"u1", "u2"}              \* CustomUser.id
SessionKeys == {"s1"}                \* one per browser
UserEmail == [u \in UserIds |-> IF u = "u1" THEN "a@x.org" ELSE "b@x.org"]
Emails == {"a@x.org", "b@x.org", "nobody@x.org", "not-an-email"}
Passwords == {"pw-alpha-01", "pw-bravo-02"}
NewPasswords == Passwords \cup {"short"}
PasswordLen == [p \in NewPasswords |-> IF p = "short" THEN 5 ELSE 11]
SecretPool == {"JBSWY3DPEHPK3PXP"}   \* outcomes of pyotp.random_base32()
\* outcomes of secrets.token_hex(4): eight lower-case hex characters
HexCode(k) == <<"a", "1", "b", "2", "c", "3", "d">> \o <<Digits[k + 1]>>
\* outcomes of the draws of one generate_backup_codes call: all distinct, or
\* the second draw repeating the first
DrawnDistinct(count) == [i \in 1..count |-> HexCode(i - 1)]
DrawnRepeated(count) == [i \in 1..count |-> IF i = 2 THEN HexCode(0) ELSE HexCode(i - 1)]
Draws(count) == {DrawnDistinct(count), DrawnRepeated(count)}
StartTime == 4 * TOTP_INTERVAL
\* clock advances: one second, one second less than 24 hours
ExpiryDeltas == {1, RESET_VALID_HOURS * SECONDS_PER_HOUR - 1}
\* the clock is followed until one second after a token of StartTime has expired
Horizon == RESET_VALID_HOURS * SECONDS_PER_HOUR + 1

\* forms.EmailField validation
well_formed(email) == email # "not-an-email"

\* session['_session_expiry'] after set_expiry(0)
EXPIRE_AT_BROWSER_CLOSE == "0"

----------------------------------------------------------------------------
(* One-time passwords: pyotp.TOTP(secret) *)

SecretSeed(secret) == IF secret = "JBSWY3DPEHPK3PXP" THEN 492039 ELSE 755224

\* the counter of a time: floor(t / interval)
timecode(t) == t \div TOTP_INTERVAL

\* the truncated HMAC of (secret, counter), reduced to TOTP_DIGITS decimal digits
otp_value(secret, counter) ==
    (SecretSeed(secret) + 7082 * (counter % 1000) + 7 * (counter % 1000) * (counter % 1000))
        % (10 ^ TOTP_DIGITS)

\* the code as text, zero-padded to TOTP_DIGITS characters
otp_text(n) ==
    [i \in 1..TOTP_DIGITS |-> Digits[((n \div (10 ^ (TOTP_DIGITS - i))) % 10) + 1]]

\* TOTP.at(for_time, counter_offset)
totp_at(secret, t, offset) == otp_text(otp_value(secret, timecode(t) + offset))

\* TOTP.verify(token, valid_window)
totp_verify(secret, token, t, window) ==
    \E i \in (0 - window)..window : token = totp_at(secret, t, i)

----------------------------------------------------------------------------
(* CustomUser *)

NewUser(u) ==
    [ email               |-> UserEmail[u],
      password            |-> "pw-alpha-01",
      mfa_enabled         |-> FALSE,
      mfa_secret          |-> "",
      mfa_backup_codes    |-> <<>>,
      failed_login_attempts |-> 0,
      password_changed_at |-> StartTime ]

\* CustomUser.generate_mfa_secret
generate_mfa_secret(user, secret) == [user EXCEPT !.mfa_secret = secret]

\* verification that accepts the current time step only
verify_mfa_token_no_drift(user, token, t) ==
    IF user.mfa_secret = "" THEN FALSE
    ELSE totp_verify(user.mfa_secret, token, t, 0)

\* a check that accepts every code once a secret is stored
verify_mfa_token_unchecked(user, token, t) == user.mfa_secret # ""

\* CustomUser.verify_mfa_token
verify_mfa_token(user, token, t) ==
    IF user.mfa_secret = "" THEN FALSE
    ELSE totp_verify(user.mfa_secret, token, t, VALID_WINDOW)

\* CustomUser.generate_backup_codes; drawn holds the token_hex outcomes
generate_backup_codes(user, drawn) ==
    LET codes == [i \in 1..Len(drawn) |-> upper(drawn[i])]
    IN  [ user  |-> [user EXCEPT !.mfa_backup_codes = join(codes)],
          codes |-> codes ]

verify_backup_code_case_sensitive(user, code) ==
    IF user.mfa_backup_codes = <<>> THEN [ok |-> FALSE, user |-> user]
    ELSE LET codes == split(user.mfa_backup_codes)
         IN  IF contains(codes, code)
             THEN [ ok   |-> TRUE,
                    user |-> [user EXCEPT !.mfa_backup_codes =
                                              join(list_remove(codes, code))] ]
             ELSE [ok |-> FALSE, user |-> user]

\* a check that accepts a stored code and leaves it stored
verify_backup_code_unconsumed(user, code) ==
    IF user.mfa_backup_codes = <<>> THEN [ok |-> FALSE, user |-> user]
    ELSE [ok |-> contains(split(user.mfa_backup_codes), upper(code)), user |-> user]

\* CustomUser.verify_backup_code; user is the row as saved, ok the value returned
verify_backup_code(user, code) ==
    IF user.mfa_backup_codes = <<>> THEN [ok |-> FALSE, user |-> user]
    ELSE LET codes == split(user.mfa_backup_codes)
         IN  IF contains(codes, upper(code))
             THEN [ ok   |-> TRUE,
                    user |-> [user EXCEPT !.mfa_backup_codes =
                                              join(list_remove(codes, upper(code)))] ]
             ELSE [ok |-> FALSE, user |-> user]

\* the count without the check for an empty field
get_remaining_backup_codes_count_unguarded(user) == Len(split(user.mfa_backup_codes))

\* CustomUser.get_remaining_backup_codes_count
get_remaining_backup_codes_count(user) ==
    IF user.mfa_backup_codes = <<>> THEN 0
    ELSE Len(split(user.mfa_backup_codes))

----------------------------------------------------------------------------
(* PasswordResetToken *)

\* PasswordResetToken.objects.create(user=user, token=token)
NewResetToken(u, token, t) ==
    [user |-> u, token |-> token, created_at |-> t, used |-> FALSE]

is_valid_inclusive(reset_token, t) ==
    IF reset_token.used THEN FALSE
    ELSE t <= reset_token.created_at + RESET_VALID_HOURS * SECONDS_PER_HOUR

\* PasswordResetToken.is_valid
is_valid(reset_token, t) ==
    IF reset_token.used THEN FALSE
    ELSE t < reset_token.created_at + RESET_VALID_HOURS * SECONDS_PER_HOUR

----------------------------------------------------------------------------
(* Sessions: django.contrib.sessions and django.contrib.auth *)

EmptySession ==
    [ auth_user_id    |-> None,     \* session[SESSION_KEY]
      mfa_user_id     |-> None,     \* session['mfa_user_id']
      mfa_remember_me |-> None,     \* session['mfa_remember_me']: "True", "False"
      session_expiry  |-> None ]    \* session['_session_expiry']

py_bool(b) == IF b THEN "True" ELSE "False"

\* request.user.is_authenticated
is_authenticated(session) == session.auth_user_id # None

\* django.contrib.auth.login: a session of another user is flushed, any other
\* session keeps its data under a new key
auth_login(session, u) ==
    IF session.auth_user_id # None /\ session.auth_user_id # u
    THEN [EmptySession EXCEPT !.auth_user_id = u]
    ELSE [session EXCEPT !.auth_user_id = u]

\* a logout that forgets the user and keeps the other session keys
auth_logout_keeps_data(session) == [session EXCEPT !.auth_user_id = None]

\* django.contrib.auth.logout: session.flush()
auth_logout(session) == EmptySession

\* request.session.set_expiry(0)
set_expiry_0(session) == [session EXCEPT !.session_expiry = EXPIRE_AT_BROWSER_CLOSE]

\* settings.SESSION_COOKIE_AGE (seconds), settings.SESSION_EXPIRE_AT_BROWSER_CLOSE
SESSION_COOKIE_AGE == 86400
SESSION_EXPIRE_AT_BROWSER_CLOSE == FALSE

\* session.get_expire_at_browser_close(): a session without an expiry of its
\* own follows the setting, one with an expiry of 0 ends with the browser
get_expire_at_browser_close(session) ==
    IF session.session_expiry = None THEN SESSION_EXPIRE_AT_BROWSER_CLOSE
    ELSE session.session_expiry = EXPIRE_AT_BROWSER_CLOSE

\* session.get_expiry_age(): the lifetime in seconds of a session that does
\* not end with the browser
get_expiry_age(session) ==
    IF session.session_expiry = None THEN SESSION_COOKIE_AGE ELSE 0

\* django.contrib.auth.authenticate, as CustomLoginForm.clean calls it
authenticate(email, password) ==
    IF \E u \in UserIds : users[u].email = email /\ users[u].password = password
    THEN CHOOSE u \in UserIds : users[u].email = email /\ users[u].password = password
    ELSE None

----------------------------------------------------------------------------
(* Requests and responses *)

\* the requests that can be under way together
RequestIds == {"r1", "r2"}

\* a request that is not under way holds nothing
NoFlight == [pc |-> "idle"]
NoFlights == [r \in RequestIds |-> NoFlight]

NoRequest ==
    [ view          |-> "none",
      session       |-> None,
      user          |-> None,
      email         |-> "",
      password      |-> "",
      remember_me   |-> FALSE,
      code          |-> <<>>,
      use_backup    |-> FALSE,
      token         |-> 0,
      new_password1 |-> "",
      new_password2 |-> "" ]

Redirect(to) == [status |-> "redirect", to |-> to, message |-> ""]
RedirectMsg(to, message) == [status |-> "redirect", to |-> to, message |-> message]
Render(template, message) == [status |-> "render", to |-> template, message |-> message]
Http404 == [status |-> "404", to |-> "", message |-> ""]
Return(value) == [status |-> "return", to |-> "", message |-> value]
NoResponse == [status |-> "none", to |-> "", message |-> ""]

----------------------------------------------------------------------------
(* PDFDocument and ConversionLog (src/pdfapp/models.py) *)

\* bool(x) of a text or of None
truthy(x) == x # None /\ x # ""

ALLOWED_EXTENSIONS == {"docx", "pptx"}

\* uploaded files: a name and its extension
SourceFiles == { [stem |-> "report", ext |-> "docx"],
                 [stem |-> "slides", ext |-> "pptx"],
                 [stem |-> "notes", ext |-> "txt"] }

\* processed_at of a row that was never processed (null=True)
NullTime == -1

\* a row of PDFDocument as PDFDocumentCreateView saves it: empty artifacts,
\* status 'pending'
NewDocument(title, source_file, u) ==
    [ title         |-> title,
      source_file   |-> source_file,
      pdf_file      |-> "",
      html_file     |-> "",
      html_content  |-> "",
      user          |-> u,
      status        |-> "pending",
      error_message |-> "",
      view_count    |-> 0,
      processed_at  |-> NullTime ]

\* the place of a row that was deleted, and the answer of a lookup that finds no row
NoDocument == [NewDocument("", [stem |-> "", ext |-> ""], None) EXCEPT !.status = "deleted"]

\* PDFDocument.source_extension, is_docx, has_pdf, has_html
source_extension(document) == document.source_file.ext
is_docx(document) == source_extension(document) = "docx"
has_pdf(document) == truthy(document.pdf_file)
has_html(document) == truthy(document.html_file) \/ truthy(document.html_content)

\* the rows that are in the table: a deleted row leaves its primary key unused
LiveDocuments == {pk \in 1..Len(documents) : documents[pk] # NoDocument}

\* ConversionLog.objects.create(document, action, message)
NewLog(pk, action, message) == [document |-> pk, action |-> action, message |-> message]

\* document.logs, in creation order
LogsOf(pk) == SelectSeq(logs, LAMBDA entry : entry.document = pk)

(* The converters of src/pdfapp/views.py.  The outcome of the soffice     *)
(* process and of the parsers is an input.                                 *)

\* what subprocess.run(['soffice', ...], timeout=120) can do: exit with a PDF
\* file, exit 0 without one, exit 1 with nothing on stderr, run out of time
SofficeOutcomes ==
    { [kind |-> "exit", returncode |-> 0, generated |-> TRUE, seconds |-> 5, text |-> ""],
      [kind |-> "exit", returncode |-> 0, generated |-> FALSE, seconds |-> 5, text |-> ""],
      [kind |-> "exit", returncode |-> 1, generated |-> FALSE, seconds |-> 5, text |-> ""],
      [kind |-> "exit", returncode |-> 0, generated |-> TRUE, seconds |-> 121, text |-> ""] }

\* convert_docx_to_pdf(docx_path, output_dir): the pair (pdf_path, error)
convert_docx_to_pdf(source_file, soffice) ==
    IF soffice.kind = "raise" THEN [pdf_path |-> None, error |-> soffice.text]
    ELSE IF soffice.seconds > CONVERT_TIMEOUT
         THEN [pdf_path |-> None, error |-> "Conversion timed out"]
    ELSE IF soffice.returncode = 0
         THEN IF soffice.generated
              THEN [pdf_path |-> source_file.stem \o ".pdf", error |-> None]
              ELSE [pdf_path |-> None, error |-> "PDF file not generated"]
    ELSE [pdf_path |-> None, error |-> soffice.text]

convert_pptx_to_pdf(source_file, soffice) == convert_docx_to_pdf(source_file, soffice)

\* what docx.Document(path) or pptx.Presentation(path) and the walk over its
\* content can do: return, or raise an exception whose text may be empty
ParserOutcomes ==
    { [kind |-> "return", text |-> ""],
      [kind |-> "raise", text |-> "Package not found"],
      [kind |-> "raise", text |-> ""] }

\* convert_docx_to_html(docx_path): the pair (html_content, error)
convert_docx_to_html(source_file, parser) ==
    IF parser.kind = "return"
    THEN [html_content |-> "<title>Converted Document</title>", error |-> None]
    ELSE [html_content |-> None, error |-> parser.text]

\* convert_pptx_to_html(pptx_path)
convert_pptx_to_html(source_file, parser) ==
    IF parser.kind = "return"
    THEN [html_content |-> "<title>Converted Presentation</title>", error |-> None]
    ELSE [html_content |-> None, error |-> parser.text]

\* exceptions that the body of process_document does not handle itself: none,
\* or an OSError of the temporary directory or of the file storage
Faults == {None, "[Errno 28] No space left on device"}

\* a local variable of process_document that is not assigned yet
Unset == "unset"

\* no request is running process_document
NoRun ==
    [ pc           |-> "idle",
      view         |-> "none",
      session      |-> None,
      pk           |-> 0,
      document     |-> NoDocument,
      first_log    |-> 0,
      pdf_path     |-> Unset,
      html_content |-> Unset,
      error        |-> Unset,
      e            |-> None ]

----------------------------------------------------------------------------
Init ==
    /\ users = [u \in UserIds |-> NewUser(u)]
    /\ sessions = [s \in SessionKeys |-> EmptySession]
    /\ login_attempts = <<>>
    /\ reset_tokens = <<>>
    /\ outbox = <<>>
    /\ now = StartTime
    /\ ticks = 0
    /\ request = NoRequest
    /\ response = NoResponse
    /\ documents = <<>>
    /\ logs = <<>>
    /\ run = NoRun
    /\ inflight = NoFlights

\* a record that keeps the default of its successful field
NewLoginAttempt_default(email, successful) == [email |-> email, successful |-> FALSE]

\* LoginAttempt.objects.create
NewLoginAttempt(email, successful) == [email |-> email, successful |-> successful]

\* CustomLoginForm.is_valid
login_form_valid(email, password) ==
    well_formed(email) /\ authenticate(email, password) # None

\* LoginView.post, lines 76-77: the pending-MFA keys are stored, nobody is logged in
start_mfa_login_unverified(session, u, remember_me) ==
    [auth_login(session, u) EXCEPT !.mfa_user_id = u,
                                   !.mfa_remember_me = py_bool(remember_me)]

start_mfa_login(session, u, remember_me) ==
    [session EXCEPT !.mfa_user_id = u, !.mfa_remember_me = py_bool(remember_me)]

\* LoginView.post, lines 81-85: login, then the remember-me flag decides the expiry
complete_login(session, u, remember_me) ==
    IF ~remember_me THEN set_expiry_0(auth_login(session, u))
    ELSE auth_login(session, u)

\* LoginView.post
LoginPost(s, email, password, remember_me) ==
    /\ Len(login_attempts) < MaxAttempts
    /\ request' = [NoRequest EXCEPT !.view = "LoginView.post", !.session = s,
                       !.email = email, !.password = password,
                       !.remember_me = remember_me]
    /\ IF login_form_valid(email, password)
       THEN LET u == authenticate(email, password)
            IN  /\ login_attempts' = Append(login_attempts,
                                            NewLoginAttempt(users[u].email, TRUE))
                /\ IF users[u].mfa_enabled
                   THEN /\ sessions' = [sessions EXCEPT ![s] =
                                start_mfa_login(sessions[s], u, remember_me)]
                        /\ response' = Redirect("accounts:mfa_verify")
                   ELSE /\ sessions' = [sessions EXCEPT ![s] =
                                complete_login(sessions[s], u, remember_me)]
                        /\ response' = RedirectMsg("next", "Welcome back")
       ELSE /\ login_attempts' = Append(login_attempts, NewLoginAttempt(email, FALSE))
            /\ sessions' = sessions
            /\ response' = Render("accounts/login.html", "Invalid email or password.")
    /\ UNCHANGED <<users, reset_tokens, outbox, now, ticks, documents, logs, run, inflight>>

----------------------------------------------------------------------------
(* MFA views *)

\* forms.CharField(max_length, min_length), required
char_field_valid(text, min_length, max_length) ==
    /\ Len(text) > 0
    /\ Len(text) >= min_length
    /\ Len(text) <= max_length

\* MFAVerificationForm.is_valid
mfa_verification_form_valid(code) ==
    char_field_valid(code, TOKEN_MIN_LENGTH, TOKEN_MAX_LENGTH)

\* MFASetupForm.is_valid
mfa_setup_form_valid(code) ==
    char_field_valid(code, SETUP_TOKEN_MIN_LENGTH, SETUP_TOKEN_MAX_LENGTH)

mfa_dispatch_unchecked(session) == TRUE

\* MFAVerifyView.dispatch: the request goes on to get or post
mfa_dispatch_passes(session) == session.mfa_user_id # None

\* MFAVerifyView.get
MFAVerifyGet(s) ==
    /\ request' = [NoRequest EXCEPT !.view = "MFAVerifyView.get", !.session = s]
    /\ response' = IF mfa_dispatch_passes(sessions[s])
                   THEN Render("accounts/mfa_verify.html", "")
                   ELSE Redirect("accounts:login")
    /\ UNCHANGED <<users, sessions, login_attempts, reset_tokens, outbox, now, ticks,
                   documents, logs, run, inflight>>

complete_mfa_login_keeps_pending(session, u) ==
    LET remember_me == session.mfa_remember_me = "True"
        logged_in   == auth_login(session, u)
    IN  IF ~remember_me THEN set_expiry_0(logged_in) ELSE logged_in

\* MFAVerifyView.post, lines 139-151: the pending keys are removed, the user is
\* logged in, and the stored remember-me flag decides the expiry
complete_mfa_login(session, u) ==
    LET remember_me == session.mfa_remember_me = "True"
        cleared     == [session EXCEPT !.mfa_user_id = None, !.mfa_remember_me = None]
        logged_in   == auth_login(cleared, u)
    IN  IF ~remember_me THEN set_expiry_0(logged_in) ELSE logged_in

reject_mfa_code_locks_out(session) == EmptySession

\* MFAVerifyView.post, lines 152-153: a code that does not verify leaves the
\* session as it is
reject_mfa_code(session) == session

\* MFAVerifyView.post
MFAVerifyPost(s, code, use_backup) ==
    /\ request' = [NoRequest EXCEPT !.view = "MFAVerifyView.post", !.session = s,
                       !.code = code, !.use_backup = use_backup]
    /\ IF ~mfa_dispatch_passes(sessions[s])
       THEN /\ response' = Redirect("accounts:login")
            /\ UNCHANGED <<users, sessions>>
       ELSE IF ~mfa_verification_form_valid(code)
       THEN /\ response' = Render("accounts/mfa_verify.html", "form errors")
            /\ UNCHANGED <<users, sessions>>
       ELSE IF sessions[s].mfa_user_id \notin UserIds
       THEN /\ response' = Http404
            /\ UNCHANGED <<users, sessions>>
       ELSE LET u      == sessions[s].mfa_user_id
                backup == verify_backup_code(users[u], code)
                valid  == IF use_backup THEN backup.ok
                          ELSE verify_mfa_token(users[u], code, now)
            IN  /\ users' = IF use_backup THEN [users EXCEPT ![u] = backup.user]
                            ELSE users
                /\ IF valid
                   THEN /\ sessions' = [sessions EXCEPT ![s] =
                                            complete_mfa_login(sessions[s], u)]
                        /\ response' = RedirectMsg("accounts:dashboard", "Welcome back")
                   ELSE /\ sessions' = [sessions EXCEPT ![s] =
                                            reject_mfa_code(sessions[s])]
                        /\ response' = Render("accounts/mfa_verify.html",
                                              "Invalid verification code. Please try again.")
    /\ UNCHANGED <<login_attempts, reset_tokens, outbox, now, ticks, documents, logs, run, inflight>>

\* MFASetupView.get
MFASetupGet(s, secret) ==
    /\ request' = [NoRequest EXCEPT !.view = "MFASetupView.get", !.session = s]
    /\ IF ~is_authenticated(sessions[s])
       THEN /\ response' = Redirect("accounts:login")
            /\ users' = users
       ELSE LET u == sessions[s].auth_user_id
            IN  /\ users' = IF users[u].mfa_secret = ""
                            THEN [users EXCEPT ![u] = generate_mfa_secret(users[u], secret)]
                            ELSE users
                /\ response' = Render("accounts/mfa_setup.html", "")
    /\ UNCHANGED <<sessions, login_attempts, reset_tokens, outbox, now, ticks,
                   documents, logs, run, inflight>>

\* MFASetupView.post
MFASetupPost(s, code, drawn) ==
    /\ request' = [NoRequest EXCEPT !.view = "MFASetupView.post", !.session = s,
                       !.code = code]
    /\ IF ~is_authenticated(sessions[s])
       THEN /\ response' = Redirect("accounts:login")
            /\ users' = users
       ELSE LET u == sessions[s].auth_user_id
            IN  IF mfa_setup_form_valid(code) /\ verify_mfa_token(users[u], code, now)
                THEN /\ users' = [users EXCEPT ![u] =
                            generate_backup_codes(
                                [users[u] EXCEPT !.mfa_enabled = TRUE], drawn).user]
                     /\ response' = Render("accounts/mfa_backup_codes.html",
                                           "MFA has been enabled successfully!")
                ELSE /\ users' = users
                     /\ response' = Render("accounts/mfa_setup.html",
                                           IF mfa_setup_form_valid(code)
                                           THEN "Invalid verification code. Please try again."
                                           ELSE "form errors")
    /\ UNCHANGED <<sessions, login_attempts, reset_tokens, outbox, now, ticks,
                   documents, logs, run, inflight>>

\* MFADisableView.post
MFADisablePost(s) ==
    /\ request' = [NoRequest EXCEPT !.view = "MFADisableView.post", !.session = s]
    /\ IF ~is_authenticated(sessions[s])
       THEN /\ response' = Redirect("accounts:login")
            /\ users' = users
       ELSE LET u == sessions[s].auth_user_id
            IN  /\ users' = [users EXCEPT ![u].mfa_enabled = FALSE,
                                          ![u].mfa_secret = "",
                                          ![u].mfa_backup_codes = <<>>]
                /\ response' = RedirectMsg("accounts:profile", "MFA has been disabled.")
    /\ UNCHANGED <<sessions, login_attempts, reset_tokens, outbox, now, ticks,
                   documents, logs, run, inflight>>

\* LogoutView.get, LogoutView.post
Logout(s) ==
    /\ request' = [NoRequest EXCEPT !.view = "LogoutView", !.session = s]
    /\ sessions' = [sessions EXCEPT ![s] = auth_logout(sessions[s])]
    /\ response' = RedirectMsg("content:landing", "You have been logged out.")
    /\ UNCHANGED <<users, login_attempts, reset_tokens, outbox, now, ticks, documents, logs, run, inflight>>

----------------------------------------------------------------------------
(* Password reset views *)

\* PasswordResetRequestForm.is_valid
reset_request_form_valid(email) == well_formed(email)

\* User.objects.get(email=email); None stands for User.DoesNotExist
get_user_by_email(email) ==
    IF \E u \in UserIds : users[u].email = email
    THEN CHOOSE u \in UserIds : users[u].email = email
    ELSE None

\* PasswordResetToken.generate_token: a value no earlier row holds
generate_token == Len(reset_tokens) + 1

\* send_mail(..., fail_silently=True): a failed delivery sends nothing and raises
\* nothing
send_mail(mail, delivered) == IF delivered THEN Append(outbox, mail) ELSE outbox

\* the message of PasswordResetRequestView.post, account found (line 332)
reset_message_found ==
    "If an account exists with that email, you will receive a password reset link."

reset_message_reveals == "No account exists with that email."

\* the message of PasswordResetRequestView.post, User.DoesNotExist (line 337)
reset_message_not_found ==
    "If an account exists with that email, you will receive a password reset link."

\* a reset request that retires the account's earlier tokens
PasswordResetRequestPost_retires(s, email, delivered) ==
    /\ Len(reset_tokens) < MaxTokens
    /\ request' = [NoRequest EXCEPT !.view = "PasswordResetRequestView.post",
                       !.session = s, !.email = email]
    /\ IF ~reset_request_form_valid(email)
       THEN /\ response' = Render("accounts/password_reset.html", "form errors")
            /\ UNCHANGED <<reset_tokens, outbox>>
       ELSE LET u == get_user_by_email(email)
            IN  IF u # None
                THEN /\ reset_tokens' = Append(
                            [i \in 1..Len(reset_tokens) |->
                                IF reset_tokens[i].user = u
                                THEN [reset_tokens[i] EXCEPT !.used = TRUE]
                                ELSE reset_tokens[i]],
                            NewResetToken(u, generate_token, now))
                     /\ outbox' = send_mail([to |-> email, token |-> generate_token],
                                            delivered)
                     /\ response' = Render("accounts/password_reset.html",
                                           reset_message_found)
                ELSE /\ response' = Render("accounts/password_reset.html",
                                           reset_message_not_found)
                     /\ UNCHANGED <<reset_tokens, outbox>>
    /\ UNCHANGED <<users, sessions, login_attempts, now, ticks, documents, logs, run, inflight>>

\* PasswordResetRequestView.post
PasswordResetRequestPost(s, email, delivered) ==
    /\ Len(reset_tokens) < MaxTokens
    /\ request' = [NoRequest EXCEPT !.view = "PasswordResetRequestView.post",
                       !.session = s, !.email = email]
    /\ IF ~reset_request_form_valid(email)
       THEN /\ response' = Render("accounts/password_reset.html", "form errors")
            /\ UNCHANGED <<reset_tokens, outbox>>
       ELSE LET u == get_user_by_email(email)
            IN  IF u # None
                THEN /\ reset_tokens' = Append(reset_tokens,
                                               NewResetToken(u, generate_token, now))
                     /\ outbox' = send_mail([to |-> email, token |-> generate_token],
                                            delivered)
                     /\ response' = Render("accounts/password_reset.html",
                                           reset_message_found)
                ELSE /\ response' = Render("accounts/password_reset.html",
                                           reset_message_not_found)
                     /\ UNCHANGED <<reset_tokens, outbox>>
    /\ UNCHANGED <<users, sessions, login_attempts, now, ticks, documents, logs, run, inflight>>

\* PasswordResetToken.objects.get(token=token): the row's index, 0 for DoesNotExist
get_reset_token(token) ==
    IF \E i \in 1..Len(reset_tokens) : reset_tokens[i].token = token
    THEN CHOOSE i \in 1..Len(reset_tokens) : reset_tokens[i].token = token
    ELSE 0

\* PasswordResetConfirmView.dispatch: the response that ends the request, or
\* NoResponse when the request goes on to get or post
reset_confirm_dispatch(token) ==
    LET i == get_reset_token(token)
    IN  IF i = 0
        THEN RedirectMsg("accounts:password_reset", "Invalid password reset link.")
        ELSE IF ~is_valid(reset_tokens[i], now)
        THEN RedirectMsg("accounts:password_reset",
                         "This password reset link has expired or been used.")
        ELSE NoResponse

\* AUTH_PASSWORD_VALIDATORS: MinimumLengthValidator
password_validators_ok(password) == PasswordLen[password] >= PASSWORD_MIN_LENGTH

\* CustomPasswordResetForm.is_valid (SetPasswordForm)
set_password_form_valid(new_password1, new_password2) ==
    /\ new_password1 = new_password2
    /\ password_validators_ok(new_password2)

mark_used_unsaved(reset_token) == reset_token

\* PasswordResetConfirmView.post, lines 372-373
mark_used(reset_token) == [reset_token EXCEPT !.used = TRUE]

\* PasswordResetConfirmView.post, lines 369 and 376-378: form.save() sets the
\* password, then the timestamp is updated
reset_password(user, new_password, t) ==
    [user EXCEPT !.password = new_password, !.password_changed_at = t]

\* PasswordResetConfirmView.get
PasswordResetConfirmGet(s, token) ==
    /\ request' = [NoRequest EXCEPT !.view = "PasswordResetConfirmView.get",
                       !.session = s, !.token = token]
    /\ response' = IF reset_confirm_dispatch(token) # NoResponse
                   THEN reset_confirm_dispatch(token)
                   ELSE Render("accounts/password_reset_confirm.html", "")
    /\ UNCHANGED <<users, sessions, login_attempts, reset_tokens, outbox, now, ticks,
                   documents, logs, run, inflight>>

\* PasswordResetConfirmView.post
PasswordResetConfirmPost(s, token, new_password1, new_password2) ==
    /\ request' = [NoRequest EXCEPT !.view = "PasswordResetConfirmView.post",
                       !.session = s, !.token = token,
                       !.new_password1 = new_password1,
                       !.new_password2 = new_password2]
    /\ IF reset_confirm_dispatch(token) # NoResponse
       THEN /\ response' = reset_confirm_dispatch(token)
            /\ UNCHANGED <<users, reset_tokens>>
       ELSE IF ~set_password_form_valid(new_password1, new_password2)
       THEN /\ response' = Render("accounts/password_reset_confirm.html", "form errors")
            /\ UNCHANGED <<users, reset_tokens>>
       ELSE LET i == get_reset_token(token)
                u == reset_tokens[i].user
            IN  /\ users' = [users EXCEPT ![u] = reset_password(users[u], new_password1, now)]
                /\ reset_tokens' = [reset_tokens EXCEPT ![i] = mark_used(reset_tokens[i])]
                /\ response' = RedirectMsg("accounts:login",
                        "Your password has been reset successfully. You can now login.")
    /\ UNCHANGED <<sessions, login_attempts, outbox, now, ticks, documents, logs, run, inflight>>

----------------------------------------------------------------------------
(* The clock *)

\* time passes between two requests
Tick(d) ==
    /\ ticks < MaxTicks
    /\ now + d <= StartTime + Horizon
    /\ now' = now + d
    /\ ticks' = ticks + 1
    /\ request' = NoRequest
    /\ response' = NoResponse
    /\ UNCHANGED <<users, sessions, login_attempts, reset_tokens, outbox, documents, logs, run, inflight>>

----------------------------------------------------------------------------
(* The conversion pipeline (src/pdfapp/views.py).  A request that runs     *)
(* process_document goes through it one database write or converter call   *)
(* at a time; run.document is the instance the request holds in memory.    *)

account_vars == <<users, sessions, login_attempts, reset_tokens, outbox, now, ticks>>

\* document.save(): the row takes every field of the instance
save(pk, document) == [documents EXCEPT ![pk] = document]

\* get_object_or_404(PDFDocument, pk=pk, user=request.user), and the
\* get_queryset filters of the class-based views
get_document(pk, u) ==
    IF pk \in LiveDocuments /\ documents[pk].user = u THEN documents[pk] ELSE NoDocument

\* PDFDocumentForm.is_valid: FileExtensionValidator on source_file
document_form_valid(title, source_file) ==
    title # "" /\ source_file.ext \in ALLOWED_EXTENSIONS

\* the call process_document(document) of a view
start_run(view, s, pk, document) ==
    [NoRun EXCEPT !.pc = "processing", !.view = view, !.session = s, !.pk = pk,
                  !.document = document, !.first_log = Len(logs) + 1]

\* PDFDocumentCreateView.post up to the call of process_document
PDFDocumentCreatePost(s, title, source_file) ==
    /\ run = NoRun
    /\ request' = [NoRequest EXCEPT !.view = "pdfapp:upload", !.session = s,
                        !.user = sessions[s].auth_user_id]
    /\ IF ~is_authenticated(sessions[s])
       THEN /\ response' = Redirect("accounts:login")
            /\ UNCHANGED <<documents, run>>
       ELSE IF ~document_form_valid(title, source_file)
       THEN /\ response' = Render("pdfapp/document_form.html", "form errors")
            /\ UNCHANGED <<documents, run>>
       ELSE /\ Len(documents) < MaxDocs
            /\ LET document == NewDocument(title, source_file, sessions[s].auth_user_id)
               IN  /\ documents' = Append(documents, document)
                   /\ run' = start_run("pdfapp:upload", s, Len(documents) + 1, document)
            /\ response' = NoResponse
    /\ UNCHANGED <<logs, account_vars, inflight>>

\* the start entries in the ConversionLog table
StartedRuns == Len(SelectSeq(logs, LAMBDA entry : entry.action = "start"))

\* reprocess_document that puts the row back to 'pending' before the run
ReprocessDocument_resets(s, pk) ==
    /\ run = NoRun
    /\ request' = [NoRequest EXCEPT !.view = "pdfapp:reprocess", !.session = s,
                        !.user = sessions[s].auth_user_id, !.token = pk]
    /\ IF ~is_authenticated(sessions[s])
       THEN /\ response' = Redirect("accounts:login")
            /\ UNCHANGED <<documents, run>>
       ELSE IF get_document(pk, sessions[s].auth_user_id) = NoDocument
       THEN /\ response' = Http404
            /\ UNCHANGED <<documents, run>>
       ELSE /\ StartedRuns < MaxRuns
            /\ LET document == [get_document(pk, sessions[s].auth_user_id)
                                   EXCEPT !.status = "pending"]
               IN  /\ documents' = save(pk, document)
                   /\ run' = start_run("pdfapp:reprocess", s, pk, document)
            /\ response' = NoResponse
    /\ UNCHANGED <<logs, account_vars, inflight>>

\* reprocess_document up to the call of process_document
ReprocessDocument(s, pk) ==
    /\ run = NoRun
    /\ request' = [NoRequest EXCEPT !.view = "pdfapp:reprocess", !.session = s,
                        !.user = sessions[s].auth_user_id, !.token = pk]
    /\ IF ~is_authenticated(sessions[s])
       THEN /\ response' = Redirect("accounts:login")
            /\ UNCHANGED run
       ELSE IF get_document(pk, sessions[s].auth_user_id) = NoDocument
       THEN /\ response' = Http404
            /\ UNCHANGED run
       ELSE /\ StartedRuns < MaxRuns
            /\ run' = start_run("pdfapp:reprocess", s, pk,
                                get_document(pk, sessions[s].auth_user_id))
            /\ response' = NoResponse
    /\ UNCHANGED <<documents, logs, account_vars, inflight>>

\* process_document: document.status = 'processing'; document.save()
SetProcessing ==
    /\ run.pc = "processing"
    /\ LET document == [run.document EXCEPT !.status = "processing"]
       IN  /\ documents' = save(run.pk, document)
           /\ run' = [run EXCEPT !.document = document, !.pc = "log_start"]
    /\ UNCHANGED <<logs, request, response, account_vars, inflight>>

\* a run that clears the entries of earlier runs of the document
LogStart_clears ==
    /\ run.pc = "log_start"
    /\ logs' = Append(SelectSeq(logs, LAMBDA entry : entry.document # run.pk),
                      NewLog(run.pk, "start", "Starting document conversion"))
    /\ run' = [run EXCEPT !.pc = "pdf", !.first_log = Len(logs')]
    /\ UNCHANGED <<documents, request, response, account_vars, inflight>>

\* process_document: the 'start' entry
LogStart ==
    /\ run.pc = "log_start"
    /\ logs' = Append(logs, NewLog(run.pk, "start", "Starting document conversion"))
    /\ run' = [run EXCEPT !.pc = "pdf"]
    /\ UNCHANGED <<documents, request, response, account_vars, inflight>>

\* process_document: the temporary directory and the PDF path.  tmp_fault is
\* raised by tempfile.TemporaryDirectory(), save_fault by document.pdf_file.save
ConvertPdf(soffice, tmp_fault, save_fault) ==
    /\ run.pc = "pdf"
    /\ IF tmp_fault # None
       THEN /\ run' = [run EXCEPT !.pc = "except", !.e = tmp_fault]
            /\ UNCHANGED logs
       ELSE LET result == IF is_docx(run.document)
                          THEN convert_docx_to_pdf(run.document.source_file, soffice)
                          ELSE convert_pptx_to_pdf(run.document.source_file, soffice)
                locals == [run EXCEPT !.pdf_path = result.pdf_path, !.error = result.error]
            IN  IF truthy(result.pdf_path)
                THEN IF save_fault # None
                     THEN /\ run' = [locals EXCEPT !.pc = "except", !.e = save_fault]
                          /\ UNCHANGED logs
                     ELSE /\ run' = [locals EXCEPT
                                        !.document.pdf_file =
                                            run.document.source_file.stem \o ".pdf",
                                        !.pc = "html"]
                          /\ logs' = Append(logs, NewLog(run.pk, "pdf_success",
                                                         "PDF conversion successful"))
                ELSE IF truthy(result.error)
                THEN /\ run' = [locals EXCEPT !.pc = "html"]
                     /\ logs' = Append(logs, NewLog(run.pk, "pdf_error",
                                           "PDF conversion failed: " \o result.error))
                ELSE /\ run' = [locals EXCEPT !.pc = "html"]
                     /\ UNCHANGED logs
    /\ UNCHANGED <<documents, request, response, account_vars, inflight>>

\* process_document: the HTML path.  save_fault is raised by
\* document.html_file.save, after document.html_content is assigned
ConvertHtml(parser, save_fault) ==
    /\ run.pc = "html"
    /\ LET result == IF is_docx(run.document)
                     THEN convert_docx_to_html(run.document.source_file, parser)
                     ELSE convert_pptx_to_html(run.document.source_file, parser)
           locals == [run EXCEPT !.html_content = result.html_content,
                                 !.error = result.error]
       IN  IF truthy(result.html_content)
           THEN IF save_fault # None
                THEN /\ run' = [locals EXCEPT
                                   !.document.html_content = result.html_content,
                                   !.pc = "except", !.e = save_fault]
                     /\ UNCHANGED logs
                ELSE /\ run' = [locals EXCEPT
                                   !.document.html_content = result.html_content,
                                   !.document.html_file =
                                       run.document.source_file.stem \o ".html",
                                   !.pc = "complete"]
                     /\ logs' = Append(logs, NewLog(run.pk, "html_success",
                                                    "HTML conversion successful"))
           ELSE IF truthy(result.error)
           THEN /\ run' = [locals EXCEPT !.pc = "complete"]
                /\ logs' = Append(logs, NewLog(run.pk, "html_error",
                                      "HTML conversion failed: " \o result.error))
           ELSE /\ run' = [locals EXCEPT !.pc = "complete"]
                /\ UNCHANGED logs
    /\ UNCHANGED <<documents, request, response, account_vars, inflight>>

\* a pipeline that calls a run without both artifacts failed
Complete_strict ==
    /\ run.pc = "complete"
    /\ LET document == [run.document EXCEPT
                            !.status = IF truthy(run.document.pdf_file)
                                          /\ truthy(run.document.html_content)
                                       THEN "completed" ELSE "failed",
                            !.processed_at = now]
       IN  /\ documents' = save(run.pk, document)
           /\ run' = [run EXCEPT !.document = document, !.pc = "log_complete"]
    /\ UNCHANGED <<logs, request, response, account_vars, inflight>>

\* process_document: status 'completed', processed_at, document.save()
Complete ==
    /\ run.pc = "complete"
    /\ LET document == [run.document EXCEPT !.status = "completed", !.processed_at = now]
       IN  /\ documents' = save(run.pk, document)
           /\ run' = [run EXCEPT !.document = document, !.pc = "log_complete"]
    /\ UNCHANGED <<logs, request, response, account_vars, inflight>>

\* process_document: the 'complete' entry; return True
LogComplete ==
    /\ run.pc = "log_complete"
    /\ logs' = Append(logs, NewLog(run.pk, "complete", "Document processing completed"))
    /\ run' = [run EXCEPT !.pc = "respond"]
    /\ UNCHANGED <<documents, request, response, account_vars, inflight>>

\* an exception handler that forgets document.save()
Except_unsaved ==
    /\ run.pc = "except"
    /\ run' = [run EXCEPT !.document.status = "failed", !.document.error_message = run.e,
                          !.pc = "log_error"]
    /\ UNCHANGED <<documents, logs, request, response, account_vars, inflight>>

\* process_document, except Exception as e: status 'failed', error_message,
\* document.save()
Except ==
    /\ run.pc = "except"
    /\ LET document == [run.document EXCEPT !.status = "failed", !.error_message = run.e]
       IN  /\ documents' = save(run.pk, document)
           /\ run' = [run EXCEPT !.document = document, !.pc = "log_error"]
    /\ UNCHANGED <<logs, request, response, account_vars, inflight>>

\* an exception handler that writes no entry
LogError_skipped ==
    /\ run.pc = "log_error"
    /\ run' = [run EXCEPT !.pc = "respond"]
    /\ UNCHANGED <<documents, logs, request, response, account_vars, inflight>>

\* process_document: the 'error' entry; return False
LogError ==
    /\ run.pc = "log_error"
    /\ logs' = Append(logs, NewLog(run.pk, "error", "Processing failed: " \o run.e))
    /\ run' = [run EXCEPT !.pc = "respond"]
    /\ UNCHANGED <<documents, request, response, account_vars, inflight>>

\* the rest of the view after process_document has returned: the message and
\* the redirect
Respond ==
    /\ run.pc = "respond"
    /\ response' =
          IF run.view = "pdfapp:upload"
          THEN RedirectMsg("pdfapp:list",
                   IF run.document.status = "completed"
                   THEN "Document converted successfully!"
                   ELSE "Conversion completed with issues: " \o run.document.error_message)
          ELSE RedirectMsg("pdfapp:detail",
                   IF run.document.status = "completed"
                   THEN "Document reprocessed successfully!"
                   ELSE "Reprocessing failed: " \o run.document.error_message)
    /\ run' = NoRun
    /\ UNCHANGED <<documents, logs, request, account_vars, inflight>>

\* PDFDocumentDetailView.get: get_object counts the view and saves the row
PDFDocumentDetailGet(s, pk) ==
    /\ request' = [NoRequest EXCEPT !.view = "pdfapp:detail", !.session = s,
                        !.user = sessions[s].auth_user_id, !.token = pk]
    /\ IF ~is_authenticated(sessions[s])
       THEN /\ response' = Redirect("accounts:login")
            /\ UNCHANGED documents
       ELSE IF get_document(pk, sessions[s].auth_user_id) = NoDocument
       THEN /\ response' = Http404
            /\ UNCHANGED documents
       ELSE LET obj == get_document(pk, sessions[s].auth_user_id)
            IN  /\ obj.view_count < MaxViews
                /\ documents' = save(pk, [obj EXCEPT !.view_count = obj.view_count + 1])
                /\ response' = Render("pdfapp/document_detail.html", "")
    /\ UNCHANGED <<logs, run, account_vars, inflight>>

\* PDFDocumentDeleteView.post: the row goes, and its ConversionLog rows with it
\* (on_delete=models.CASCADE)
PDFDocumentDeletePost(s, pk) ==
    /\ request' = [NoRequest EXCEPT !.view = "pdfapp:delete", !.session = s,
                        !.user = sessions[s].auth_user_id, !.token = pk]
    /\ IF ~is_authenticated(sessions[s])
       THEN /\ response' = Redirect("accounts:login")
            /\ UNCHANGED <<documents, logs>>
       ELSE IF get_document(pk, sessions[s].auth_user_id) = NoDocument
       THEN /\ response' = Http404
            /\ UNCHANGED <<documents, logs>>
       ELSE /\ documents' = [documents EXCEPT ![pk] = NoDocument]
            /\ logs' = SelectSeq(logs, LAMBDA entry : entry.document # pk)
            /\ response' = RedirectMsg("pdfapp:list", "Document deleted successfully!")
    /\ UNCHANGED <<run, account_vars, inflight>>

----------------------------------------------------------------------------
(* Inputs *)

OtpOffsets == {-2, 0, 1}

\* codes a client may type: one-time codes around the current time, backup
\* codes in either case, and a text that is too short
OtpInputs == {totp_at(secret, now, k) : secret \in SecretPool, k \in OtpOffsets}
BackupInputs == {HexCode(0), upper(HexCode(0))}
CodeInputs == OtpInputs \cup BackupInputs \cup {<<"1", "2", "3">>}

\* reset tokens a client may present: issued ones, and one never issued
TokenInputs == 0..MaxTokens

\* emails a client may ask a reset for: an account's, nobody's, a malformed one
ResetEmails == {"a@x.org", "nobody@x.org", "not-an-email"}

\* the two password fields a client may type: equal and acceptable, different,
\* equal and too short
PasswordInputs == { <<"pw-bravo-02", "pw-bravo-02">>, <<"pw-bravo-02", "pw-alpha-01">>,
                    <<"short", "short">> }

LoginNext ==
    \/ \E s \in SessionKeys, email \in Emails, password \in Passwords, remember_me \in BOOLEAN :
           LoginPost(s, email, password, remember_me)
    \/ \E s \in SessionKeys : Logout(s)

MFANext ==
    \/ \E s \in SessionKeys : MFAVerifyGet(s)
    \/ \E s \in SessionKeys, code \in CodeInputs, use_backup \in BOOLEAN :
           MFAVerifyPost(s, code, use_backup)
    \/ \E s \in SessionKeys, secret \in SecretPool : MFASetupGet(s, secret)
    \/ \E s \in SessionKeys, code \in CodeInputs, drawn \in Draws(BACKUP_CODE_COUNT) :
           MFASetupPost(s, code, drawn)
    \/ \E s \in SessionKeys : MFADisablePost(s)

ResetNext ==
    \/ \E s \in SessionKeys, email \in ResetEmails, delivered \in BOOLEAN :
           PasswordResetRequestPost(s, email, delivered)
    \/ \E s \in SessionKeys, token \in TokenInputs : PasswordResetConfirmGet(s, token)
    \/ \E s \in SessionKeys, token \in TokenInputs, new \in PasswordInputs :
           PasswordResetConfirmPost(s, token, new[1], new[2])

\* login with MFA
Next ==
    \/ LoginNext
    \/ MFANext

Spec == Init /\ [][Next]_vars

\* password reset
NextReset ==
    \/ ResetNext
    \/ \E d \in ExpiryDeltas : Tick(d)

SpecReset == Init /\ [][NextReset]_vars

\* backup codes: calls of CustomUser.verify_backup_code on an account whose
\* codes MFA setup has generated
VerifyBackupCodeCall(u, code) ==
    LET result == verify_backup_code(users[u], code)
    IN  /\ request' = [NoRequest EXCEPT !.view = "CustomUser.verify_backup_code",
                            !.user = u, !.code = code]
        /\ users' = [users EXCEPT ![u] = result.user]
        /\ response' = Return(py_bool(result.ok))
        /\ UNCHANGED <<sessions, login_attempts, reset_tokens, outbox, now, ticks,
                       documents, logs, run, inflight>>

\* the account after MFASetupView.get and a successful MFASetupView.post
UserWithMFA(u, secret, drawn) ==
    generate_backup_codes(
        [generate_mfa_secret(NewUser(u), secret) EXCEPT !.mfa_enabled = TRUE], drawn).user

\* codes a caller may pass: stored ones in either case, one never stored, none
ConsumeInputs ==
    {HexCode(k) : k \in 0..2} \cup {upper(HexCode(k)) : k \in 0..2}
        \cup {<<"f", "f", "f", "f", "f", "f", "f", "f">>, <<>>}

InitCodes ==
    /\ \E secret \in SecretPool, drawn \in Draws(BACKUP_CODE_COUNT) :
           users = [u \in UserIds |-> IF u = "u1" THEN UserWithMFA(u, secret, drawn)
                                                 ELSE NewUser(u)]
    /\ sessions = [s \in SessionKeys |-> EmptySession]
    /\ login_attempts = <<>>
    /\ reset_tokens = <<>>
    /\ outbox = <<>>
    /\ now = StartTime
    /\ ticks = 0
    /\ request = NoRequest
    /\ response = NoResponse
    /\ documents = <<>>
    /\ logs = <<>>
    /\ run = NoRun
    /\ inflight = NoFlights

NextCodes == \E u \in UserIds, code \in ConsumeInputs : VerifyBackupCodeCall(u, code)

SpecCodes == InitCodes /\ [][NextCodes]_vars

\* the conversion pipeline: a signed-in account uploads, views, reprocesses
\* and deletes documents; requests are handled one after the other
DocumentPks == 1..MaxDocs

ProcessDocumentNext ==
    \/ SetProcessing
    \/ LogStart
    \/ \E soffice \in SofficeOutcomes, tmp_fault \in Faults, save_fault \in Faults :
           ConvertPdf(soffice, tmp_fault, save_fault)
    \/ \E parser \in ParserOutcomes, save_fault \in Faults : ConvertHtml(parser, save_fault)
    \/ Complete
    \/ LogComplete
    \/ Except
    \/ LogError
    \/ Respond

PdfNext ==
    \/ \E s \in SessionKeys, source_file \in SourceFiles :
           PDFDocumentCreatePost(s, "Report", source_file)
    \/ \E s \in SessionKeys, pk \in DocumentPks : ReprocessDocument(s, pk)
    \/ \E s \in SessionKeys, pk \in DocumentPks : run = NoRun /\ PDFDocumentDetailGet(s, pk)
    \/ \E s \in SessionKeys, pk \in DocumentPks : run = NoRun /\ PDFDocumentDeletePost(s, pk)
    \/ ProcessDocumentNext

\* the session of a browser that has signed in as u1, or has not signed in
InitPdf ==
    /\ users = [u \in UserIds |-> NewUser(u)]
    /\ \E u \in {None, "u1"} :
           sessions = [s \in SessionKeys |-> [EmptySession EXCEPT !.auth_user_id = u]]
    /\ login_attempts = <<>>
    /\ reset_tokens = <<>>
    /\ outbox = <<>>
    /\ now = StartTime
    /\ ticks = 0
    /\ request = NoRequest
    /\ response = NoResponse
    /\ documents = <<>>
    /\ logs = <<>>
    /\ run = NoRun
    /\ inflight = NoFlights

SpecPdf == InitPdf /\ [][PdfNext]_vars

\* one-time codes: calls of CustomUser.verify_mfa_token, at several times, on
\* an account with a secret and on one without
VerifyMfaTokenCall(u, token) ==
    /\ request' = [NoRequest EXCEPT !.view = "CustomUser.verify_mfa_token",
                        !.user = u, !.code = token]
    /\ response' = Return(py_bool(verify_mfa_token(users[u], token, now)))
    /\ UNCHANGED <<users, sessions, login_attempts, reset_tokens, outbox, now, ticks,
                   documents, logs, run, inflight>>

TotpSecrets == SecretPool \cup {"GEZDGNBVGY3TQOJQ"}
TotpTimes == {StartTime + (TOTP_INTERVAL \div 2) * j : j \in 0..MaxTimes}

\* codes a caller may pass: those of the time steps around the current one,
\* for either secret, and a text that is no code
TotpInputs ==
    {totp_at(secret, now, k) : secret \in TotpSecrets, k \in (0 - MaxDrift)..MaxDrift}
        \cup {<<"1", "2", "3">>}

InitTotp ==
    /\ \E secret \in TotpSecrets :
           users = [u \in UserIds |->
                       IF u = "u1"
                       THEN UserWithMFA(u, secret, DrawnDistinct(BACKUP_CODE_COUNT))
                       ELSE NewUser(u)]
    /\ sessions = [s \in SessionKeys |-> EmptySession]
    /\ login_attempts = <<>>
    /\ reset_tokens = <<>>
    /\ outbox = <<>>
    /\ now \in TotpTimes
    /\ ticks = 0
    /\ request = NoRequest
    /\ response = NoResponse
    /\ documents = <<>>
    /\ logs = <<>>
    /\ run = NoRun
    /\ inflight = NoFlights

NextTotp == \E u \in UserIds, token \in TotpInputs : VerifyMfaTokenCall(u, token)

SpecTotp == InitTotp /\ [][NextTotp]_vars

\* the count of backup codes: a signed-in account sets MFA up, consumes backup
\* codes and disables MFA
\* codes a caller may pass: the first and the last of the codes the account
\* was shown and has not used yet, and one never stored
CountInputs ==
    LET field == users["u1"].mfa_backup_codes
        codes == IF field = <<>> THEN <<>> ELSE split(field)
    IN  {codes[i] : i \in {1, Len(codes)} \cap DOMAIN codes}
            \cup {<<"f", "f", "f", "f", "f", "f", "f", "f">>}

InitCount ==
    /\ users = [u \in UserIds |-> NewUser(u)]
    /\ sessions = [s \in SessionKeys |-> [EmptySession EXCEPT !.auth_user_id = "u1"]]
    /\ login_attempts = <<>>
    /\ reset_tokens = <<>>
    /\ outbox = <<>>
    /\ now = StartTime
    /\ ticks = 0
    /\ request = NoRequest
    /\ response = NoResponse
    /\ documents = <<>>
    /\ logs = <<>>
    /\ run = NoRun
    /\ inflight = NoFlights

NextCount ==
    \/ \E s \in SessionKeys, secret \in SecretPool : MFASetupGet(s, secret)
    \/ \E s \in SessionKeys, code \in CodeInputs, drawn \in Draws(BACKUP_CODE_COUNT) :
           MFASetupPost(s, code, drawn)
    \/ \E s \in SessionKeys : MFADisablePost(s)
    \/ \E u \in UserIds, code \in CountInputs : VerifyBackupCodeCall(u, code)

SpecCount == InitCount /\ [][NextCount]_vars

----------------------------------------------------------------------------
(* Two confirm requests under way together.  PasswordResetConfirmView runs *)
(* dispatch, which loads the token row and checks it, and then post, which *)
(* writes; another request can run between the two.                        *)

\* PasswordResetConfirmView.dispatch of request r: a rejected request ends
\* here, an accepted one keeps the row it loaded in self.reset_token
ConfirmDispatch(r, s, token, new_password1, new_password2) ==
    /\ inflight[r] = NoFlight
    /\ IF reset_confirm_dispatch(token) # NoResponse
       THEN /\ request' = [NoRequest EXCEPT !.view = "PasswordResetConfirmView.post",
                               !.session = s, !.token = token,
                               !.new_password1 = new_password1,
                               !.new_password2 = new_password2]
            /\ response' = reset_confirm_dispatch(token)
            /\ UNCHANGED inflight
       ELSE /\ inflight' = [inflight EXCEPT ![r] =
                               [pc |-> "post", session |-> s, token |-> token,
                                pk |-> get_reset_token(token),
                                reset_token |-> reset_tokens[get_reset_token(token)],
                                new_password1 |-> new_password1,
                                new_password2 |-> new_password2]]
            /\ UNCHANGED <<request, response>>
    /\ UNCHANGED <<users, sessions, login_attempts, reset_tokens, outbox, now, ticks,
                   documents, logs, run>>

\* PasswordResetConfirmView.post of request r, on the row dispatch loaded
ConfirmPost(r) ==
    /\ inflight[r] # NoFlight
    /\ inflight[r].pc = "post"
    /\ LET f == inflight[r]
           u == f.reset_token.user
       IN  /\ request' = [NoRequest EXCEPT !.view = "PasswordResetConfirmView.post",
                               !.session = f.session, !.token = f.token,
                               !.new_password1 = f.new_password1,
                               !.new_password2 = f.new_password2]
           /\ IF ~set_password_form_valid(f.new_password1, f.new_password2)
              THEN /\ response' = Render("accounts/password_reset_confirm.html",
                                         "form errors")
                   /\ UNCHANGED <<users, reset_tokens>>
              ELSE /\ users' = [users EXCEPT ![u] =
                                   reset_password(users[u], f.new_password1, now)]
                   /\ reset_tokens' = [reset_tokens EXCEPT ![f.pk] =
                                          mark_used(f.reset_token)]
                   /\ response' = RedirectMsg("accounts:login",
                          "Your password has been reset successfully. You can now login.")
    /\ inflight' = [inflight EXCEPT ![r] = NoFlight]
    /\ UNCHANGED <<sessions, login_attempts, outbox, now, ticks, documents, logs, run>>

\* the password fields of two clients who choose different new passwords, and
\* of one whose fields differ
RacePasswordInputs == { <<"pw-bravo-02", "pw-bravo-02">>, <<"pw-alpha-01", "pw-alpha-01">>,
                        <<"pw-bravo-02", "pw-alpha-01">> }

NextResetRace ==
    \/ \E s \in SessionKeys, delivered \in BOOLEAN :
           PasswordResetRequestPost(s, UserEmail["u1"], delivered)
    \/ \E r \in RequestIds, s \in SessionKeys, token \in TokenInputs,
          new \in RacePasswordInputs :
           ConfirmDispatch(r, s, token, new[1], new[2])
    \/ \E r \in RequestIds : ConfirmPost(r)

SpecResetRace == Init /\ [][NextResetRace]_vars

----------------------------------------------------------------------------
(* Two backup-code consumptions under way together.  Each request loads    *)
(* its own CustomUser instance and verify_backup_code works on that        *)
(* instance: it reads the instance's codes, removes one and saves the      *)
(* whole instance.                                                         *)

\* user = get_object_or_404(User, id=user_id): request r loads the row
LoadUser(r, u) ==
    /\ inflight[r].pc \in {"idle", "returned"}
    /\ inflight' = [inflight EXCEPT ![r] = [pc |-> "loaded", user_id |-> u,
                                            user |-> users[u]]]
    /\ UNCHANGED <<users, sessions, login_attempts, reset_tokens, outbox, now, ticks,
                   request, response, documents, logs, run>>

\* user.verify_backup_code(code) of request r, on the instance it loaded; the
\* save inside writes every field of that instance
ConsumeBackupCode(r, code) ==
    /\ inflight[r].pc = "loaded"
    /\ LET u == inflight[r].user_id
           result == verify_backup_code(inflight[r].user, code)
       IN  /\ request' = [NoRequest EXCEPT !.view = "CustomUser.verify_backup_code",
                               !.user = u, !.code = code]
           /\ users' = IF result.ok THEN [users EXCEPT ![u] = result.user] ELSE users
           /\ response' = Return(py_bool(result.ok))
           /\ inflight' = [inflight EXCEPT ![r] = [pc |-> "returned", user_id |-> u,
                                                   code |-> code, ok |-> result.ok]]
    /\ UNCHANGED <<sessions, login_attempts, reset_tokens, outbox, now, ticks,
                   documents, logs, run>>

\* codes the two clients may submit: the first code the account was shown, as
\* shown and in upper case, and one never stored
RaceCodeInputs ==
    {HexCode(0), upper(HexCode(0)), <<"f", "f", "f", "f", "f", "f", "f", "f">>}

NextCodesRace ==
    \/ \E r \in RequestIds, u \in UserIds : LoadUser(r, u)
    \/ \E r \in RequestIds, code \in RaceCodeInputs : ConsumeBackupCode(r, code)

SpecCodesRace == InitCodes /\ [][NextCodesRace]_vars

----------------------------------------------------------------------------
(* Detail views under way together with a pipeline run.  get_object loads  *)
(* the row, counts the view on the loaded instance and saves the whole     *)
(* instance; the pipeline and other views can write between load and save. *)

\* PDFDocumentDetailView.get_object, line 386: request r loads the row
DetailGetObject(r, s, pk) ==
    /\ inflight[r] = NoFlight
    /\ IF ~is_authenticated(sessions[s])
       THEN /\ request' = [NoRequest EXCEPT !.view = "pdfapp:detail", !.session = s,
                               !.user = sessions[s].auth_user_id, !.token = pk]
            /\ response' = Redirect("accounts:login")
            /\ UNCHANGED inflight
       ELSE IF get_document(pk, sessions[s].auth_user_id) = NoDocument
       THEN /\ request' = [NoRequest EXCEPT !.view = "pdfapp:detail", !.session = s,
                               !.user = sessions[s].auth_user_id, !.token = pk]
            /\ response' = Http404
            /\ UNCHANGED inflight
       ELSE LET obj == get_document(pk, sessions[s].auth_user_id)
            IN  /\ obj.view_count < MaxViews
                /\ inflight' = [inflight EXCEPT ![r] =
                                   [pc |-> "save", session |-> s, pk |-> pk, obj |-> obj]]
                /\ UNCHANGED <<request, response>>
    /\ UNCHANGED <<documents, logs, run, account_vars>>

\* PDFDocumentDetailView.get_object, lines 387-389, and the rendering
DetailSave(r) ==
    /\ inflight[r] # NoFlight
    /\ inflight[r].pc = "save"
    /\ LET f == inflight[r]
       IN  /\ request' = [NoRequest EXCEPT !.view = "pdfapp:detail",
                               !.session = f.session,
                               !.user = sessions[f.session].auth_user_id,
                               !.token = f.pk]
           /\ documents' = save(f.pk, [f.obj EXCEPT !.view_count = f.obj.view_count + 1])
           /\ response' = Render("pdfapp/document_detail.html", "")
    /\ inflight' = [inflight EXCEPT ![r] = NoFlight]
    /\ UNCHANGED <<logs, run, account_vars>>

\* a run whose converters succeed
ConvertedPdf ==
    \E soffice \in {o \in SofficeOutcomes :
                        o.kind = "exit" /\ o.returncode = 0 /\ o.generated
                        /\ o.seconds <= CONVERT_TIMEOUT} :
        ConvertPdf(soffice, None, None)

ConvertedHtml ==
    \E parser \in {o \in ParserOutcomes : o.kind = "return"} : ConvertHtml(parser, None)

NextPdfRace ==
    \/ \E s \in SessionKeys :
           PDFDocumentCreatePost(s, "Report", [stem |-> "report", ext |-> "docx"])
    \/ SetProcessing
    \/ LogStart
    \/ ConvertedPdf
    \/ ConvertedHtml
    \/ Complete
    \/ LogComplete
    \/ Respond
    \/ \E r \in RequestIds, s \in SessionKeys, pk \in DocumentPks : DetailGetObject(r, s, pk)
    \/ \E r \in RequestIds : DetailSave(r)

SpecPdfRace == InitPdf /\ [][NextPdfRace]_vars

----------------------------------------------------------------------------
(* MFA requests of two signed-in sessions of one account under way          *)
(* together, next to a browser that logs in.  request.user is the instance *)
(* the request loaded; user.save() writes every field of that instance.    *)

\* MFASetupView.get of request r, on the instance it loaded
SetupGet(r, secret) ==
    /\ inflight[r].pc = "loaded"
    /\ LET u == inflight[r].user_id
           user == inflight[r].user
       IN  /\ request' = [NoRequest EXCEPT !.view = "MFASetupView.get", !.user = u]
           /\ users' = IF user.mfa_secret = ""
                       THEN [users EXCEPT ![u] = generate_mfa_secret(user, secret)]
                       ELSE users
           /\ response' = Render("accounts/mfa_setup.html", "")
    /\ inflight' = [inflight EXCEPT ![r] = NoFlight]
    /\ UNCHANGED <<sessions, login_attempts, reset_tokens, outbox, now, ticks,
                   documents, logs, run>>

\* MFASetupView.post of request r, on the instance it loaded
SetupPost(r, code, drawn) ==
    /\ inflight[r].pc = "loaded"
    /\ LET u == inflight[r].user_id
           user == inflight[r].user
       IN  /\ request' = [NoRequest EXCEPT !.view = "MFASetupView.post", !.user = u,
                               !.code = code]
           /\ IF mfa_setup_form_valid(code) /\ verify_mfa_token(user, code, now)
              THEN /\ users' = [users EXCEPT ![u] =
                          generate_backup_codes(
                              [user EXCEPT !.mfa_enabled = TRUE], drawn).user]
                   /\ response' = Render("accounts/mfa_backup_codes.html",
                                         "MFA has been enabled successfully!")
              ELSE /\ users' = users
                   /\ response' = Render("accounts/mfa_setup.html",
                                         IF mfa_setup_form_valid(code)
                                         THEN "Invalid verification code. Please try again."
                                         ELSE "form errors")
    /\ inflight' = [inflight EXCEPT ![r] = NoFlight]
    /\ UNCHANGED <<sessions, login_attempts, reset_tokens, outbox, now, ticks,
                   documents, logs, run>>

\* a disable that forgets the secret and the codes and leaves the flag
DisablePost_keeps_flag(r) ==
    /\ inflight[r].pc = "loaded"
    /\ LET u == inflight[r].user_id
           user == inflight[r].user
       IN  /\ request' = [NoRequest EXCEPT !.view = "MFADisableView.post", !.user = u]
           /\ users' = [users EXCEPT ![u] = [user EXCEPT !.mfa_secret = "",
                                                         !.mfa_backup_codes = <<>>]]
           /\ response' = RedirectMsg("accounts:profile", "MFA has been disabled.")
    /\ inflight' = [inflight EXCEPT ![r] = NoFlight]
    /\ UNCHANGED <<sessions, login_attempts, reset_tokens, outbox, now, ticks,
                   documents, logs, run>>

\* MFADisableView.post of request r, on the instance it loaded
DisablePost(r) ==
    /\ inflight[r].pc = "loaded"
    /\ LET u == inflight[r].user_id
           user == inflight[r].user
       IN  /\ request' = [NoRequest EXCEPT !.view = "MFADisableView.post", !.user = u]
           /\ users' = [users EXCEPT ![u] = [user EXCEPT !.mfa_enabled = FALSE,
                                                         !.mfa_secret = "",
                                                         !.mfa_backup_codes = <<>>]]
           /\ response' = RedirectMsg("accounts:profile", "MFA has been disabled.")
    /\ inflight' = [inflight EXCEPT ![r] = NoFlight]
    /\ UNCHANGED <<sessions, login_attempts, reset_tokens, outbox, now, ticks,
                   documents, logs, run>>

\* codes the setup form and the verify form may get: the code of the moment,
\* one that is two steps old
RaceOtpInputs == {totp_at(secret, now, k) : secret \in SecretPool, k \in {-2, 0}}

NextMfaRace ==
    \/ \E r \in RequestIds : LoadUser(r, "u1")
    \/ \E r \in RequestIds, secret \in SecretPool : SetupGet(r, secret)
    \/ \E r \in RequestIds, code \in RaceOtpInputs :
           SetupPost(r, code, DrawnDistinct(BACKUP_CODE_COUNT))
    \/ \E r \in RequestIds : DisablePost(r)
    \/ \E r \in RequestIds : ConsumeBackupCode(r, HexCode(0))
    \/ \E s \in SessionKeys, remember_me \in BOOLEAN :
           LoginPost(s, UserEmail["u1"], "pw-alpha-01", remember_me)
    \/ \E s \in SessionKeys, code \in RaceOtpInputs : MFAVerifyPost(s, code, FALSE)

SpecMfaRace == Init /\ [][NextMfaRace]_vars

----------------------------------------------------------------------------
(* The session states of the login flow *)

Anonymous(session) == session.auth_user_id = None /\ session.mfa_user_id = None
PendingMFA(session) == session.auth_user_id = None /\ session.mfa_user_id # None
Authenticated(session) == session.auth_user_id # None

\* the credentials of the request are those of account u
CorrectCredentials(req, u) ==
    req.email = users[u].email /\ req.password = users[u].password

\* the submitted code is one the form accepts and the account's check accepts
CodeVerifies(req, u) ==
    /\ Len(req.code) >= TOKEN_MIN_LENGTH
    /\ Len(req.code) <= TOKEN_MAX_LENGTH
    /\ IF req.use_backup THEN verify_backup_code(users[u], req.code).ok
       ELSE verify_mfa_token(users[u], req.code, now)

\* the backup codes stored for an account
StoredCodes(user) ==
    IF user.mfa_backup_codes = <<>> THEN <<>> ELSE split(user.mfa_backup_codes)

\* how often a code is stored
Occurrences(codes, x) == Cardinality({i \in 1..Len(codes) : codes[i] = x})

----------------------------------------------------------------------------
(* Login and MFA verification *)

\* C1: correct credentials submitted from an Anonymous session make it
\* Authenticated as that account when the account has MFA disabled, and
\* PendingMFA (account id and remember-me flag stored, nobody logged in) when
\* the account has MFA enabled.
C1_LoginTransitions ==
    [][ \A s \in SessionKeys, u \in UserIds :
          ( /\ request'.view = "LoginView.post"
            /\ request'.session = s
            /\ Anonymous(sessions[s])
            /\ CorrectCredentials(request', u) )
          => IF users[u].mfa_enabled
             THEN /\ PendingMFA(sessions'[s])
                  /\ sessions'[s].mfa_user_id = u
                  /\ sessions'[s].mfa_remember_me = py_bool(request'.remember_me)
                  /\ response'.to = "accounts:mfa_verify"
             ELSE /\ sessions'[s].auth_user_id = u
                  /\ sessions'[s].mfa_user_id = None
                  /\ response'.status = "redirect" ]_vars

C1_Witness ==
    /\ request.view = "LoginView.post"
    /\ request.remember_me
    /\ \E u \in UserIds :
          /\ CorrectCredentials(request, u)
          /\ users[u].mfa_enabled
          /\ PendingMFA(sessions[request.session])
          /\ sessions[request.session].mfa_user_id = u

\* C2: a code that verifies for the pending account, submitted from PendingMFA,
\* removes both pending keys from the session and logs in the pending account
\* and no other.
C2_MFASuccess ==
    [][ \A s \in SessionKeys, u \in UserIds :
          ( /\ request'.view = "MFAVerifyView.post"
            /\ request'.session = s
            /\ PendingMFA(sessions[s])
            /\ sessions[s].mfa_user_id = u
            /\ CodeVerifies(request', u) )
          => /\ sessions'[s].mfa_user_id = None
             /\ sessions'[s].mfa_remember_me = None
             /\ sessions'[s].auth_user_id = u
             /\ response'.to = "accounts:dashboard" ]_vars

C2_Witness ==
    /\ request.view = "MFAVerifyView.post"
    /\ response.to = "accounts:dashboard"
    /\ Authenticated(sessions[request.session])
    /\ users[sessions[request.session].auth_user_id].mfa_enabled
    /\ sessions[request.session].mfa_user_id = None

\* C3: a code that does not verify, submitted from PendingMFA, changes neither
\* the session (same pending account, same remember-me flag, nobody logged in)
\* nor any account, token or attempt record, so it can be submitted again.
C3_MFAFailure ==
    [][ \A s \in SessionKeys, u \in UserIds :
          ( /\ request'.view = "MFAVerifyView.post"
            /\ request'.session = s
            /\ PendingMFA(sessions[s])
            /\ sessions[s].mfa_user_id = u
            /\ ~CodeVerifies(request', u) )
          => /\ sessions' = sessions
             /\ PendingMFA(sessions'[s])
             /\ users' = users
             /\ login_attempts' = login_attempts
             /\ reset_tokens' = reset_tokens
             /\ response'.status = "render"
             /\ response'.to = "accounts/mfa_verify.html" ]_vars

C3_Witness ==
    /\ request.view = "MFAVerifyView.post"
    /\ response.message = "Invalid verification code. Please try again."
    /\ PendingMFA(sessions[request.session])
    /\ ~request.use_backup

\* C4: from PendingMFA, a backup code that is stored for the pending account,
\* submitted with use_backup_code set, is consumed and the session becomes
\* Authenticated as that account.
C4_BackupCodeAccepted ==
    [][ \A s \in SessionKeys, u \in UserIds :
          ( /\ request'.view = "MFAVerifyView.post"
            /\ request'.session = s
            /\ PendingMFA(sessions[s])
            /\ sessions[s].mfa_user_id = u
            /\ request'.use_backup
            /\ contains(StoredCodes(users[u]), request'.code) )
          => /\ sessions'[s].auth_user_id = u
             /\ Occurrences(StoredCodes(users'[u]), request'.code)
                    = Occurrences(StoredCodes(users[u]), request'.code) - 1 ]_vars

\* C5: without a pending-MFA account id in the session, a request to the MFA
\* verification view, GET or POST, is redirected to login and changes nothing:
\* no code is checked, no backup code consumed, nobody logged in.
C5_MFARequiresPending ==
    [][ \A s \in SessionKeys :
          ( /\ request'.view \in {"MFAVerifyView.get", "MFAVerifyView.post"}
            /\ request'.session = s
            /\ sessions[s].mfa_user_id = None )
          => /\ response' = Redirect("accounts:login")
             /\ users' = users
             /\ sessions' = sessions ]_vars

C5_Witness ==
    /\ request.view = "MFAVerifyView.post"
    /\ sessions[request.session].mfa_user_id = None
    /\ response = Redirect("accounts:login")
    /\ request.code \in {totp_at(users[u].mfa_secret, now, 0) :
                            u \in {v \in UserIds : users[v].mfa_enabled}}

----------------------------------------------------------------------------
(* Backup codes *)

\* two texts are equal up to the case of their letters
SameIgnoringCase(a, b) ==
    /\ Len(a) = Len(b)
    /\ \A i \in 1..Len(a) :
          \/ a[i] = b[i]
          \/ \E k \in 1..Len(Lower) : {a[i], b[i]} = {Lower[k], Upper[k]}

ConsumeSucceeded(resp) == resp.status = "return" /\ resp.message = "True"

\* C6: a successful consume removes exactly one instance of the code and keeps
\* every other stored code, a failed consume changes nothing, and a code that
\* has just been consumed does not verify when it is consumed again.
C6_BackupCodesSingleUse ==
    [][ \A u \in UserIds :
          ( request'.view = "CustomUser.verify_backup_code" /\ request'.user = u )
          => LET before == StoredCodes(users[u])
                 after  == StoredCodes(users'[u])
                 code   == upper(request'.code)
             IN  /\ ConsumeSucceeded(response')
                    => /\ Len(after) = Len(before) - 1
                       /\ \A i \in 1..Len(before) :
                             Occurrences(after, before[i]) =
                                 Occurrences(before, before[i])
                                     - (IF before[i] = code THEN 1 ELSE 0)
                 /\ ~ConsumeSucceeded(response') => users' = users
                 /\ ( /\ request.view = "CustomUser.verify_backup_code"
                      /\ request.user = u
                      /\ ConsumeSucceeded(response)
                      /\ SameIgnoringCase(request.code, request'.code) )
                    => ~ConsumeSucceeded(response') ]_vars

\* C7: verify_backup_code returns true exactly when the account's stored codes
\* are not empty and one of them equals the submitted code up to case; with no
\* stored code, or without the submitted one, it returns false.
C7_ConsumeResult ==
    [][ \A u \in UserIds :
          ( request'.view = "CustomUser.verify_backup_code" /\ request'.user = u )
          => ( ConsumeSucceeded(response')
               <=> /\ users[u].mfa_backup_codes # <<>>
                   /\ \E i \in 1..Len(StoredCodes(users[u])) :
                         SameIgnoringCase(StoredCodes(users[u])[i], request'.code) ) ]_vars

C7_Witness ==
    /\ request.view = "CustomUser.verify_backup_code"
    /\ request.code = HexCode(0)
    /\ ConsumeSucceeded(response)

----------------------------------------------------------------------------
(* Password reset *)

\* the rows of a token value
RowsOf(token) == {i \in 1..Len(reset_tokens) : reset_tokens[i].token = token}

\* the token is known, not used, and younger than 24 hours
Usable(token) ==
    \E i \in RowsOf(token) :
        /\ ~reset_tokens[i].used
        /\ now - reset_tokens[i].created_at < 86400

RejectedReset(resp) ==
    resp.status = "redirect" /\ resp.to = "accounts:password_reset"

\* C8: a confirm POST changes the password only for a token that exists, is not
\* used and is strictly younger than 24 hours; for any other token it is
\* rejected and leaves accounts, tokens and sessions as they were.
C8_ResetTokenValidity ==
    [][ request'.view = "PasswordResetConfirmView.post"
        => /\ users' # users => Usable(request'.token)
           /\ ~Usable(request'.token)
              => /\ RejectedReset(response')
                 /\ users' = users
                 /\ reset_tokens' = reset_tokens
                 /\ sessions' = sessions ]_vars

\* a confirm POST rejected for an unused token at exactly 24 hours
C8_Witness ==
    /\ request.view = "PasswordResetConfirmView.post"
    /\ RejectedReset(response)
    /\ \E i \in RowsOf(request.token) :
          /\ ~reset_tokens[i].used
          /\ now - reset_tokens[i].created_at = 86400

\* C9: a successful confirm POST sets the new password and the
\* password-changed timestamp of the token's account, marks that token and no
\* other as used, and logs nobody in; a used token stays used, and every
\* later confirm request presenting it is rejected.
C9_ResetSuccess ==
    [][ /\ \A i \in 1..Len(reset_tokens) :
              ( /\ request'.view = "PasswordResetConfirmView.post"
                /\ request'.token = reset_tokens[i].token
                /\ Usable(request'.token)
                /\ request'.new_password1 = request'.new_password2
                /\ PasswordLen[request'.new_password1] >= 8 )
              => LET u == reset_tokens[i].user
                 IN  /\ users'[u].password = request'.new_password1
                     /\ users'[u].password_changed_at = now
                     /\ \A v \in UserIds \ {u} : users'[v] = users[v]
                     /\ Len(reset_tokens') = Len(reset_tokens)
                     /\ reset_tokens'[i].used
                     /\ \A j \in 1..Len(reset_tokens) :
                           j # i => reset_tokens'[j] = reset_tokens[j]
                     /\ sessions' = sessions
                     /\ \A s \in SessionKeys : Anonymous(sessions'[s])
                     /\ response'.to = "accounts:login"
        /\ \A i \in 1..Len(reset_tokens) :
              reset_tokens[i].used
              => /\ reset_tokens'[i].used
                 /\ ( /\ request'.view \in {"PasswordResetConfirmView.get",
                                            "PasswordResetConfirmView.post"}
                      /\ request'.token = reset_tokens[i].token )
                    => RejectedReset(response') /\ users' = users ]_vars

\* a confirm POST rejected for a token that an earlier confirm POST used
C9_Witness ==
    /\ request.view = "PasswordResetConfirmView.post"
    /\ RejectedReset(response)
    /\ \E i \in RowsOf(request.token) :
          /\ reset_tokens[i].used
          /\ users[reset_tokens[i].user].password = "pw-bravo-02"
          /\ users[reset_tokens[i].user].password_changed_at > StartTime
          /\ now - reset_tokens[i].created_at < 86400

\* C10: a reset request with a well-formed email gets the same response whether
\* or not an account has that email and whether or not the mail is delivered;
\* it adds exactly one unused token for the account when there is one, and
\* nothing otherwise.
C10_ResetRequestUniform ==
    [][ ( /\ request'.view = "PasswordResetRequestView.post"
          /\ request'.email # "not-an-email" )
        => /\ response' = Render("accounts/password_reset.html",
                  "If an account exists with that email, you will receive a password reset link.")
           /\ users' = users
           /\ sessions' = sessions
           /\ IF \E u \in UserIds : users[u].email = request'.email
              THEN /\ Len(reset_tokens') = Len(reset_tokens) + 1
                   /\ SubSeq(reset_tokens', 1, Len(reset_tokens)) = reset_tokens
                   /\ LET new == reset_tokens'[Len(reset_tokens')]
                      IN  /\ users[new.user].email = request'.email
                          /\ ~new.used
                          /\ new.created_at = now
                          /\ RowsOf(new.token) = {}
              ELSE /\ reset_tokens' = reset_tokens
                   /\ outbox' = outbox ]_vars

\* a request for an unknown email, answered like the earlier request for a
\* known one whose mail was not delivered
C10_Witness ==
    /\ request.view = "PasswordResetRequestView.post"
    /\ request.email = "nobody@x.org"
    /\ response.message =
           "If an account exists with that email, you will receive a password reset link."
    /\ Len(reset_tokens) = 1
    /\ outbox = <<>>

----------------------------------------------------------------------------
(* The conversion pipeline *)

\* process_document has returned to the view that called it
Returned == run.pc = "respond"

\* the entries the current run has appended so far
RunEntries == SubSeq(logs, run.first_log, Len(logs))

\* how many of the entries have one of the actions
CountOf(entries, actions) == Len(SelectSeq(entries, LAMBDA entry : entry.action \in actions))

\* the outcome of the PDF path and of the HTML path of the current run
PdfFailed == run.pdf_path = None
HtmlFailed == run.html_content = None

TerminalStatus == {"completed", "failed"}

\* C11: a document that no request is running the pipeline on (the submit or
\* the reprocess that ran it has got process_document back) has status
\* completed or failed, whatever the converter and the parser did.
C11_PipelineTerminates ==
    \A pk \in LiveDocuments :
        (run.pc \in {"idle", "respond"} \/ run.pk # pk)
            => documents[pk].status \in TerminalStatus

\* a reprocess has returned after the converter and the parser both failed
C11_Witness ==
    /\ Returned
    /\ run.view = "pdfapp:reprocess"
    /\ PdfFailed
    /\ HtmlFailed
    /\ documents[run.pk].status = "completed"

\* C12: when a run has returned, the status is failed exactly when an
\* exception reached the handler of process_document, and error_message is then
\* its text; without one the status is completed, also when the PDF path, the
\* HTML path or both failed.
C12_FailedOnlyByException ==
    Returned =>
        LET document == documents[run.pk]
        IN  /\ document.status = "failed" <=> run.e # None
            /\ run.e # None => document.error_message = run.e
            /\ run.e = None => document.status = "completed"
            /\ (run.e = None /\ PdfFailed) => document.status = "completed"
            /\ (run.e = None /\ HtmlFailed) => document.status = "completed"

\* a first run that timed out in the converter and failed in the parser:
\* completed with no artifact at all
C12_Witness ==
    /\ Returned
    /\ run.view = "pdfapp:upload"
    /\ run.e = None
    /\ PdfFailed
    /\ HtmlFailed
    /\ documents[run.pk].status = "completed"
    /\ ~has_pdf(documents[run.pk])
    /\ ~has_html(documents[run.pk])
    /\ \E i \in 1..Len(RunEntries) :
          RunEntries[i].message = "PDF conversion failed: Conversion timed out"

\* C13 as stated: the status only moves forward along pending, processing,
\* completed or failed, and a status of completed or failed never changes.
C13_StatusTerminal ==
    [][ \A pk \in LiveDocuments \cap LiveDocuments' :
          /\ documents[pk].status \in TerminalStatus
                => documents'[pk].status = documents[pk].status
          /\ documents'[pk].status # documents[pk].status
                => <<documents[pk].status, documents'[pk].status>> \in
                      { <<"pending", "processing">>, <<"processing", "completed">>,
                        <<"processing", "failed">> } ]_vars

\* C13 amended: a new row is pending; a status changes only in a step of a
\* pipeline run on that document: to processing at the start of the run (from
\* pending in a submit, from completed or failed in a reprocess), then to
\* completed or failed; no other request changes it.
C13_StatusPerRun ==
    [][ /\ \A pk \in LiveDocuments \cap LiveDocuments' :
              documents'[pk].status # documents[pk].status
                => /\ run.pk = pk
                   /\ \/ /\ run.pc = "processing"
                         /\ documents'[pk].status = "processing"
                         /\ documents[pk].status =
                               IF run.view = "pdfapp:upload" THEN "pending"
                               ELSE documents[pk].status
                         /\ run.view = "pdfapp:reprocess"
                               => documents[pk].status \in TerminalStatus
                      \/ /\ run.pc \in {"complete", "except"}
                         /\ documents[pk].status = "processing"
                         /\ documents'[pk].status \in TerminalStatus
        /\ \A pk \in LiveDocuments' \ LiveDocuments :
              documents'[pk].status = "pending" ]_vars

\* a reprocess of a completed document has ended in failed
C13_Witness ==
    /\ Returned
    /\ run.view = "pdfapp:reprocess"
    /\ documents[run.pk].status = "failed"
    /\ \E i \in 1..(run.first_log - 1) :
          logs[i].document = run.pk /\ logs[i].action = "complete"

\* C14: a run that has returned without an exception has appended exactly one
\* entry for the PDF path and exactly one for the HTML path.
C14_BothPathsLogged ==
    (Returned /\ run.e = None)
        => /\ CountOf(RunEntries, {"pdf_success", "pdf_error"}) = 1
           /\ CountOf(RunEntries, {"html_success", "html_error"}) = 1

\* C15: the entries of a run start with a start entry, and when the run has
\* returned they end with its only terminal entry: complete when the status is
\* completed, error when it is failed.
C15_StartAndTerminalEntry ==
    /\ (run.pc # "idle" /\ Len(RunEntries) > 0)
          => /\ RunEntries[1].action = "start"
             /\ CountOf(RunEntries, {"start"}) = 1
    /\ Returned
          => /\ Len(RunEntries) >= 2
             /\ CountOf(RunEntries, {"complete", "error"}) = 1
             /\ RunEntries[Len(RunEntries)].action =
                   IF documents[run.pk].status = "completed" THEN "complete" ELSE "error"
             /\ documents[run.pk].status \in TerminalStatus
    /\ (run.pc \notin {"idle", "respond"})
          => CountOf(RunEntries, {"complete", "error"}) = 0

\* a run that ended in failed after its PDF entry
C15_Witness ==
    /\ Returned
    /\ documents[run.pk].status = "failed"
    /\ Len(RunEntries) = 3
    /\ RunEntries[2].action = "pdf_success"
    /\ RunEntries[3].action = "error"

\* C16: when a run has returned, the PDF field is empty if its PDF path failed,
\* and the HTML content and HTML file are empty if its HTML path failed.
C16_FailedArtifactEmpty ==
    Returned =>
        /\ PdfFailed => documents[run.pk].pdf_file = ""
        /\ HtmlFailed => /\ documents[run.pk].html_content = ""
                         /\ documents[run.pk].html_file = ""

\* the entries of a document in a ConversionLog table
LogsOfIn(table, pk) == SelectSeq(table, LAMBDA entry : entry.document = pk)

IsPrefix(a, b) == Len(a) <= Len(b) /\ SubSeq(b, 1, Len(a)) = a

\* C17: in every step the entries of a document that stays in the table are a
\* prefix of its entries after the step, so none is changed or removed and
\* their number never decreases (the entries of a document that is deleted go
\* with it); a reprocess that has returned has left the earlier entries of
\* its document in place and added its own after them.
C17_LogsAppendOnly ==
    [][ /\ \A pk \in LiveDocuments \cap LiveDocuments' :
              IsPrefix(LogsOfIn(logs, pk), LogsOfIn(logs', pk))
        /\ (run.pc = "log_start" /\ run'.pc = "pdf")
              => /\ Len(logs') = Len(logs) + 1
                 /\ IsPrefix(logs, logs')
        /\ (run'.pc = "respond" /\ run'.view = "pdfapp:reprocess")
              => /\ Len(logs') >= run'.first_log + 1
                 /\ \E i \in 1..(run'.first_log - 1) : logs'[i].document = run'.pk ]_vars

\* a reprocess has returned: the entries of the first run, then its own
C17_Witness ==
    /\ Returned
    /\ run.view = "pdfapp:reprocess"
    /\ run.first_log > 3
    /\ logs[1].action = "start"
    /\ logs[run.first_log].action = "start"
    /\ \A i \in 1..Len(logs) : logs[i].document = run.pk

----------------------------------------------------------------------------
(* Login attempts, one-time codes, the count of backup codes *)

\* C18: a credential submission appends exactly one LoginAttempt whose email
\* is the submitted one and whose successful flag tells whether the
\* credentials were those of an account; the earlier records stay as they
\* were; a failed submission changes no session, so an Anonymous session
\* stays Anonymous; no other request touches the table.
C18_OneLoginAttempt ==
    [][ /\ request'.view = "LoginView.post"
            => LET n == Len(login_attempts)
                   s == request'.session
               IN  /\ Len(login_attempts') = n + 1
                   /\ SubSeq(login_attempts', 1, n) = login_attempts
                   /\ login_attempts'[n + 1].email = request'.email
                   /\ login_attempts'[n + 1].successful
                         <=> \E u \in UserIds : CorrectCredentials(request', u)
                   /\ ~login_attempts'[n + 1].successful
                         => /\ sessions' = sessions
                            /\ Anonymous(sessions[s]) => Anonymous(sessions'[s])
                            /\ response'.message = "Invalid email or password."
        /\ request'.view # "LoginView.post" => login_attempts' = login_attempts ]_vars

\* a successful submission, then a failed one with a malformed email from the
\* Anonymous session
C18_Witness ==
    /\ request.view = "LoginView.post"
    /\ Len(login_attempts) = 2
    /\ login_attempts[1] = NewLoginAttempt("a@x.org", TRUE)
    /\ login_attempts[2].email = "not-an-email"
    /\ ~login_attempts[2].successful
    /\ Anonymous(sessions[request.session])

\* C19: a check at time step k accepts the code of an account's secret for
\* the steps k-1, k and k+1 and rejects its code for every other step; an
\* account without a secret has every code rejected.
C19_DriftWindow ==
    request.view = "CustomUser.verify_mfa_token"
        => LET user == users[request.user]
               accepted == response = Return("True")
           IN  /\ user.mfa_secret = "" => ~accepted
               /\ user.mfa_secret # ""
                     => \A k \in (0 - MaxDrift)..MaxDrift :
                           request.code = totp_at(user.mfa_secret, now, k)
                               => (accepted <=> k \in {-1, 0, 1})

\* the code of the next time step, accepted in the middle of a step
C19_Witness ==
    /\ request.view = "CustomUser.verify_mfa_token"
    /\ users[request.user].mfa_secret # ""
    /\ now % TOTP_INTERVAL # 0
    /\ request.code = totp_at(users[request.user].mfa_secret, now, 1)
    /\ response = Return("True")

\* the stored codes of an account, counted from the text of the field: each
\* code and the comma after it take one more character than a code
CodesInField(user) == (Len(user.mfa_backup_codes) + 1) \div (Len(HexCode(0)) + 1)

\* C20: the remaining count is the number of stored codes; it is 10 when MFA
\* has just been enabled, one less after a successful consume, the same after
\* a failed one, and 0 when the field is empty and after MFA is disabled.
C20_RemainingCount ==
    [][ \A u \in UserIds :
          LET before == get_remaining_backup_codes_count(users[u])
              after  == get_remaining_backup_codes_count(users'[u])
              by_u   == request'.session # None
                          /\ sessions[request'.session].auth_user_id = u
          IN  /\ after = CodesInField(users'[u])
              /\ users'[u].mfa_backup_codes = <<>> => after = 0
              /\ ( /\ request'.view = "MFASetupView.post"
                   /\ by_u
                   /\ response'.to = "accounts/mfa_backup_codes.html" )
                    => (users'[u].mfa_enabled /\ after = 10)
              /\ (request'.view = "CustomUser.verify_backup_code" /\ request'.user = u)
                    => after = IF ConsumeSucceeded(response') THEN before - 1 ELSE before
              /\ (request'.view = "MFADisableView.post" /\ by_u)
                    => (~users'[u].mfa_enabled /\ after = 0) ]_vars

\* the last of the ten codes has been consumed
C20_Witness ==
    /\ request.view = "CustomUser.verify_backup_code"
    /\ ConsumeSucceeded(response)
    /\ users[request.user].mfa_enabled
    /\ users[request.user].mfa_backup_codes = <<>>
    /\ get_remaining_backup_codes_count(users[request.user]) = 0

----------------------------------------------------------------------------
(* Session lifetime, logout, MFA bypass, session states *)

\* the request completed a login in session s: directly, with the credentials
\* of an account without MFA, or through an accepted MFA code
DirectLogin(req, s) ==
    /\ req.view = "LoginView.post"
    /\ req.session = s
    /\ \E u \in UserIds : CorrectCredentials(req, u) /\ ~users[u].mfa_enabled

\* the code is one pyotp accepts for the account now, or one of its stored
\* backup codes that the form lets through
ValidCodeFor(u, req) ==
    /\ Len(req.code) >= TOKEN_MIN_LENGTH
    /\ Len(req.code) <= TOKEN_MAX_LENGTH
    /\ IF req.use_backup
       THEN \E i \in 1..Len(StoredCodes(users[u])) :
                StoredCodes(users[u])[i] = upper(req.code)
       ELSE /\ users[u].mfa_secret # ""
            /\ \E k \in -VALID_WINDOW..VALID_WINDOW :
                   req.code = totp_at(users[u].mfa_secret, now, k)

\* C21: after a successful login, directly or through MFA, the session ends
\* with the browser exactly when remember-me was false at the credential
\* submission, and otherwise keeps the configured lifetime of 24 hours; on the
\* MFA path the flag is the one stored with the pending login.
C21_SessionLifetime ==
    [][ \A s \in SessionKeys :
          /\ DirectLogin(request', s)
             => /\ get_expire_at_browser_close(sessions'[s]) <=> ~request'.remember_me
                /\ request'.remember_me
                   => get_expiry_age(sessions'[s]) = 24 * 60 * 60
          /\ ( /\ request'.view = "MFAVerifyView.post"
               /\ request'.session = s
               /\ response'.to = "accounts:dashboard" )
             => /\ get_expire_at_browser_close(sessions'[s])
                     <=> sessions[s].mfa_remember_me # py_bool(TRUE)
                /\ sessions[s].mfa_remember_me = py_bool(TRUE)
                   => get_expiry_age(sessions'[s]) = 24 * 60 * 60 ]_vars

\* C22: logout empties the session, pending-MFA keys included, and leaves it
\* Anonymous; a logout of an Anonymous session leaves it Anonymous, a second
\* logout changes nothing the first did not; accounts, reset tokens and login
\* attempts are untouched.
C22_Logout ==
    [][ \A s \in SessionKeys :
          (request'.view = "LogoutView" /\ request'.session = s)
          => /\ sessions'[s] = EmptySession
             /\ Anonymous(sessions'[s])
             /\ (request.view = "LogoutView" /\ request.session = s)
                => sessions' = sessions
             /\ users' = users
             /\ reset_tokens' = reset_tokens
             /\ login_attempts' = login_attempts
             /\ outbox' = outbox ]_vars

C22_Witness ==
    /\ request.view = "LogoutView"
    /\ sessions[request.session] = EmptySession
    /\ Len(login_attempts) > 0
    /\ login_attempts[Len(login_attempts)].successful
    /\ \E u \in UserIds : /\ users[u].mfa_enabled
                          /\ users[u].email = login_attempts[Len(login_attempts)].email

\* C23: a session becomes logged in for an account only by a credential login
\* of an account whose MFA is off at that check, or by an accepted MFA code
\* submitted from the pending login of that same account; and a pending login
\* starts only with the correct credentials of an MFA-enabled account.  So no
\* credential login alone authenticates an MFA-enabled account.
C23_NoMFABypass ==
    [][ \A s \in SessionKeys, u \in UserIds :
          /\ (sessions'[s].auth_user_id = u /\ sessions[s].auth_user_id # u)
             => \/ /\ request'.view = "LoginView.post"
                   /\ request'.session = s
                   /\ CorrectCredentials(request', u)
                   /\ ~users[u].mfa_enabled
                \/ /\ request'.view = "MFAVerifyView.post"
                   /\ request'.session = s
                   /\ sessions[s].mfa_user_id = u
                   /\ ValidCodeFor(u, request')
          /\ (sessions'[s].mfa_user_id = u /\ sessions[s].mfa_user_id # u)
             => /\ request'.view = "LoginView.post"
                /\ request'.session = s
                /\ CorrectCredentials(request', u)
                /\ users[u].mfa_enabled
          /\ ( /\ request'.view = "LoginView.post"
               /\ CorrectCredentials(request', u)
               /\ users[u].mfa_enabled )
             => sessions'[s].auth_user_id = sessions[s].auth_user_id ]_vars

C23_Witness ==
    /\ request.view = "MFAVerifyView.post"
    /\ response.to = "accounts:dashboard"
    /\ sessions[request.session].auth_user_id # None
    /\ users[sessions[request.session].auth_user_id].mfa_enabled
    /\ request.code = totp_at(users[sessions[request.session].auth_user_id].mfa_secret,
                              now, 0)
    /\ Len(login_attempts) = MaxAttempts

\* C26: no session holds a pending-MFA marker and a logged-in user together,
\* so every session is in exactly one of Anonymous, PendingMFA, Authenticated.
C26_ExclusiveStates ==
    \A s \in SessionKeys :
        ~(sessions[s].mfa_user_id # None /\ sessions[s].auth_user_id # None)

----------------------------------------------------------------------------
(* Error message of a document *)

\* C28: a completed document has an empty error message, and a document has a
\* non-empty error message only while it is failed, also after a failed run
\* that a successful reprocess follows.
C28_ErrorOnlyWhileFailed ==
    \A pk \in 1..Len(documents) :
        documents[pk] # NoDocument
        => /\ documents[pk].status = "completed" => documents[pk].error_message = ""
           /\ documents[pk].error_message # "" => documents[pk].status = "failed"

----------------------------------------------------------------------------
(* Coexisting reset tokens *)

\* the row is unused and younger than 24 hours at time t
ValidRow(row, t) == ~row.used /\ t - row.created_at < 86400

\* C29: a reset request for an existing account appends one new token and
\* leaves every earlier token as it was, so earlier valid tokens stay valid
\* next to the new one; a successful confirm POST marks the presented token
\* used and leaves every other token as it was, so the account's other valid
\* tokens stay valid.
C29_TokensCoexist ==
    [][ /\ ( /\ request'.view = "PasswordResetRequestView.post"
             /\ \E u \in UserIds : users[u].email = request'.email )
           => /\ Len(reset_tokens') = Len(reset_tokens) + 1
              /\ ValidRow(reset_tokens'[Len(reset_tokens')], now)
              /\ \A j \in 1..Len(reset_tokens) :
                    /\ reset_tokens'[j] = reset_tokens[j]
                    /\ ValidRow(reset_tokens[j], now) => ValidRow(reset_tokens'[j], now)
        /\ ( /\ request'.view = "PasswordResetConfirmView.post"
             /\ response'.to = "accounts:login" )
           => /\ Len(reset_tokens') = Len(reset_tokens)
              /\ \A j \in 1..Len(reset_tokens) :
                    IF reset_tokens[j].token = request'.token
                    THEN ValidRow(reset_tokens[j], now) /\ reset_tokens'[j].used
                    ELSE /\ reset_tokens'[j] = reset_tokens[j]
                         /\ ValidRow(reset_tokens[j], now)
                            => ValidRow(reset_tokens'[j], now) ]_vars

\* one account with two tokens: one just used by a confirm POST, the other
\* still valid
C29_Witness ==
    /\ request.view = "PasswordResetConfirmView.post"
    /\ response.to = "accounts:login"
    /\ \E i, j \in 1..Len(reset_tokens) :
          /\ i # j
          /\ reset_tokens[i].user = reset_tokens[j].user
          /\ reset_tokens[i].token = request.token
          /\ reset_tokens[i].used
          /\ ValidRow(reset_tokens[j], now)

----------------------------------------------------------------------------
(* Interleaved confirm requests *)

\* C24: a reset token is single-use under every interleaving: the post of a
\* confirm request whose token an earlier confirm has already marked used
\* changes no password, also when the request passed dispatch's validity
\* check before the earlier request marked the token.
C24_SingleUseInterleaved ==
    [][ \A r \in RequestIds :
          ( /\ inflight[r] # NoFlight
            /\ inflight'[r] = NoFlight
            /\ reset_tokens[inflight[r].pk].used )
          => users' = users ]_vars

----------------------------------------------------------------------------
(* Interleaved backup-code consumptions *)

----------------------------------------------------------------------------
(* Interleaved detail views *)

\* C27: the save of a detail view raises the stored view count of its
\* document by exactly one and changes no other field, no other document and
\* no log entry, also when the pipeline or another view has written the row
\* since the view read it.
C27_ViewCountsOnly ==
    [][ \A r \in RequestIds :
          (inflight[r] # NoFlight /\ inflight'[r] = NoFlight)
          => /\ documents' = [documents EXCEPT ![inflight[r].pk].view_count = @ + 1]
             /\ logs' = logs ]_vars

----------------------------------------------------------------------------
(* MFA state of an account *)

\* the request r ends in this step by saving the instance it loaded
Saves(r) == inflight[r].pc = "loaded" /\ inflight'[r] # inflight[r]

\* C30: in every account state reached by MFA setup, disable, login,
\* verification and backup-code consumption, with the requests of two sessions
\* of the account saving separately loaded copies, MFA enabled implies a
\* non-empty secret.  The stored flag turns on only in the save of a setup
\* POST whose code verifies against the secret it saves, or in the save of a
\* copy that was loaded with the flag on; a disable stores flag off, secret
\* empty and no backup codes together; and a verification for an account
\* stored that way logs nobody in.
C30_MfaEnabledHasSecret ==
    /\ [](\A u \in UserIds : users[u].mfa_enabled => users[u].mfa_secret # "")
    /\ [][ \A u \in UserIds :
             /\ (users'[u].mfa_enabled /\ ~users[u].mfa_enabled)
                => \E r \in RequestIds :
                      /\ Saves(r)
                      /\ inflight[r].user_id = u
                      /\ users'[u].mfa_secret = inflight[r].user.mfa_secret
                      /\ \/ inflight[r].user.mfa_enabled
                         \/ /\ request'.view = "MFASetupView.post"
                            /\ \E k \in -VALID_WINDOW..VALID_WINDOW :
                                  request'.code = totp_at(users'[u].mfa_secret, now, k)
             /\ (request'.view = "MFADisableView.post" /\ request'.user = u)
                => /\ ~users'[u].mfa_enabled
                   /\ users'[u].mfa_secret = ""
                   /\ users'[u].mfa_backup_codes = <<>>
             /\ ( /\ request'.view = "MFAVerifyView.post"
                  /\ \E s \in SessionKeys : sessions[s].mfa_user_id = u
                  /\ users[u].mfa_secret = ""
                  /\ users[u].mfa_backup_codes = <<>> )
                => /\ sessions' = sessions
                   /\ response'.to # "accounts:dashboard" ]_vars

\* a pending login of the account is refused the code of the moment after
\* another session of the account has disabled MFA
C30_Witness ==
    /\ request.view = "MFAVerifyView.post"
    /\ request.code \in {totp_at(secret, now, 0) : secret \in SecretPool}
    /\ response.to # "accounts:dashboard"
    /\ \E s \in SessionKeys : PendingMFA(sessions[s]) /\ sessions[s].mfa_user_id = "u1"
    /\ ~users["u1"].mfa_enabled
    /\ users["u1"].mfa_secret = ""
    /\ users["u1"].mfa_backup_codes = <<>>

====
